---- MODULE Spec2Model ----
(***************************************************************************)
(* A model of the widget suggestion engine of kyma-widget-intelligence     *)
(* (src/src/similarity_engine.rs): the record store with its               *)
(* merge-or-create policy, the preset store, the similarity metric and the *)
(* suggestion ranking.                                                     *)
(*                                                                         *)
(* Numbers.  The engine computes in f64.  Scores are modelled in fixed     *)
(* point: the integer x stands for x / One.  Widget bounds, current values *)
(* and preset values are drawn from integers, which f64 represents         *)
(* exactly.  Divisions round down.                                         *)
(*                                                                         *)
(* Strings.  A label is a sequence of one-character strings, so that       *)
(* tokenize_label and jaro_winkler work on characters as the code does.    *)
(* Display types and preset names are only compared for equality and are   *)
(* plain strings.                                                          *)
(***************************************************************************)
EXTENDS Integers, Sequences, FiniteSets, TLC

(***************************************************************************)
(* Bounds of the model.                                                    *)
(***************************************************************************)
MaxCalls == 3      \* store_widget and store_preset calls in one run
MaxStores == 4     \* store_widget and store_preset calls on one database
MaxFrequency == 12 \* the largest record frequency a confidence is computed for

(***************************************************************************)
(* f64 in fixed point.                                                     *)
(***************************************************************************)
One == 10000

Min2(a, b) == IF a <= b THEN a ELSE b
Max2(a, b) == IF a >= b THEN a ELSE b
Abs(a) == IF a < 0 THEN -a ELSE a
Clamp(x, lo, hi) == IF x < lo THEN lo ELSE IF x > hi THEN hi ELSE x

(***************************************************************************)
(* Option<T>                                                               *)
(***************************************************************************)
None == [some |-> FALSE]
Some(x) == [some |-> TRUE, val |-> x]
UnwrapOr(o, d) == IF o.some THEN o.val ELSE d

(***************************************************************************)
(* Characters: to_lowercase, is_whitespace, is_alphanumeric on the         *)
(* alphabet the labels of the model are written in.                        *)
(***************************************************************************)
Lower(c) ==
    CASE c = "V" -> "v"
      [] c = "P" -> "p"
      [] OTHER -> c
IsWhitespace(c) == c = " "
IsAlphanumeric(c) == c \notin {" ", "_", "-"}

ToLowercase(s) == [i \in 1..Len(s) |-> Lower(s[i])]

\* split_whitespace: the maximal runs of non-whitespace characters, in order
RECURSIVE SplitWhitespaceFrom(_, _, _, _)
SplitWhitespaceFrom(s, i, cur, acc) ==
    IF i > Len(s)
    THEN IF cur = <<>> THEN acc ELSE Append(acc, cur)
    ELSE IF IsWhitespace(s[i])
         THEN SplitWhitespaceFrom(s, i + 1, <<>>,
                                  IF cur = <<>> THEN acc ELSE Append(acc, cur))
         ELSE SplitWhitespaceFrom(s, i + 1, Append(cur, s[i]), acc)
SplitWhitespace(s) == SplitWhitespaceFrom(s, 1, <<>>, <<>>)

tokenize_label(label) ==
    LET words == SplitWhitespace(ToLowercase(label))
        stripped == [i \in 1..Len(words) |-> SelectSeq(words[i], IsAlphanumeric)]
    IN SelectSeq(stripped, LAMBDA w : w # <<>>)

\* [String]::join(" ")
RECURSIVE JoinFrom(_, _)
JoinFrom(tokens, i) ==
    IF i > Len(tokens) THEN <<>>
    ELSE IF i = Len(tokens) THEN tokens[i]
    ELSE tokens[i] \o <<" ">> \o JoinFrom(tokens, i + 1)
Join(tokens) == JoinFrom(tokens, 1)

(***************************************************************************)
(* strsim::jaro_winkler.  Jaro scans a left to right; a[i] matches the     *)
(* first unconsumed equal character of b inside the search window, and a   *)
(* match left of the previous match counts as a transposition.  Winkler    *)
(* adds the common-prefix boost (at most 4 characters) above 0.7.          *)
(***************************************************************************)
\* the least element of a set of positions, 0 standing for None
First(S) == IF S = {} THEN 0 ELSE CHOOSE j \in S : \A k \in S : j <= k

FirstMatch(a, b, i, lo, hi, consumed) ==
    First({j \in lo..hi : a[i] = b[j] /\ j \notin consumed})

\* the Jaro score of m matches, some of them transposed
JaroScore(a, b, m, transpositions) ==
    IF m = 0 THEN 0
    ELSE ((m * One) \div Len(a) + (m * One) \div Len(b)
          + ((m - transpositions) * One) \div m) \div 3

RECURSIVE JaroScan(_, _, _, _, _, _, _, _)
\* the step of the scan at a[i], j being the match of a[i] in b or 0
JaroStep(a, b, i, search_range, consumed, matches, transpositions, b_match_index, j) ==
    IF j = 0
    THEN JaroScan(a, b, i + 1, search_range, consumed, matches,
                  transpositions, b_match_index)
    ELSE JaroScan(a, b, i + 1, search_range, consumed \cup {j}, matches + 1,
                  IF j < b_match_index THEN transpositions + 1
                                       ELSE transpositions,
                  j)

JaroScan(a, b, i, search_range, consumed, matches, transpositions, b_match_index) ==
    IF i > Len(a)
    THEN JaroScore(a, b, matches, transpositions)
    ELSE JaroStep(a, b, i, search_range, consumed, matches, transpositions,
                  b_match_index,
                  FirstMatch(a, b, i, Max2(1, i - search_range),
                             Min2(Len(b), i + search_range), consumed))

jaro(a, b) ==
    IF Len(a) = 0 /\ Len(b) = 0 THEN One
    ELSE IF Len(a) = 0 \/ Len(b) = 0 THEN 0
    ELSE JaroScan(a, b, 1, Max2((Max2(Len(a), Len(b)) \div 2) - 1, 0), {}, 0, 0, 1)

RECURSIVE CommonPrefix(_, _, _)
CommonPrefix(a, b, i) ==
    IF i > 4 \/ i > Len(a) \/ i > Len(b) THEN 0
    ELSE IF a[i] # b[i] THEN 0
    ELSE 1 + CommonPrefix(a, b, i + 1)

\* the Winkler boost of a Jaro score above 0.7
Winkler(sim, prefix_length) ==
    IF sim > (7 * One) \div 10
    THEN Min2(sim + (prefix_length * (One - sim)) \div 10, One)
    ELSE sim

jaro_winkler(a, b) == Winkler(jaro(a, b), CommonPrefix(a, b, 1))

(***************************************************************************)
(* The data the runs draw from.                                            *)
(***************************************************************************)
Widget(label, minimum, maximum, is_generated, display_type, current_value) ==
    [label |-> label, minimum |-> minimum, maximum |-> maximum,
     is_generated |-> is_generated, display_type |-> display_type,
     current_value |-> current_value]

LVol == <<"V", "o", "l">>
LVo == <<"V", "_", "o">>
LVola == <<" ", "v", "o", "l", "-", "a">>
LPan == <<"P", "a", "n">>

WVol == Widget(Some(LVol), Some(0), Some(100), Some(FALSE), Some("slider"), Some(50))
WVo == Widget(Some(LVo), Some(0), Some(100), Some(FALSE), Some("slider"), None)
WVola == Widget(Some(LVola), Some(0), Some(100), Some(FALSE), Some("slider"), Some(120))
WPan == Widget(Some(LPan), Some(-50), Some(50), Some(TRUE), Some("knob"), Some(0))
WEmpty == Widget(None, None, None, None, None, None)

\* the widgets handed to store_widget
Widgets == {WVol, WVo, WVola, WPan, WEmpty}

QVol == Widget(Some(LVol), None, None, None, None, None)
QFader == Widget(Some(LVol), Some(0), Some(100), None, Some("fader"), None)

\* the partial widgets handed to the queries
QueryWidgets == {QVol, QFader, WEmpty}

\* the values of max_suggestions handed to get_suggestions
SuggestionCounts == {0, 1, 2}

WidgetValue(widget_id, label, value, confidence) ==
    [widget_id |-> widget_id, label |-> label, value |-> value,
     confidence |-> confidence]

Preset(name, description, widget_values, created_by, usage_count, last_used) ==
    [name |-> name, description |-> description, widget_values |-> widget_values,
     created_by |-> created_by, usage_count |-> usage_count, last_used |-> last_used]

PSetup == Preset("My Setup", Some("Test preset"),
                 <<WidgetValue("1", Some(LVol), 75, One),
                   WidgetValue("2", Some(LPan), 0, One)>>,
                 Some("test_user"), 1, 0)
PSetupUpdated == Preset("My Setup", Some("Updated preset"), <<>>,
                        Some("test_user"), 1, 0)
PLower == Preset("my setup", None,
                 <<WidgetValue("1", Some(LVola), 50, One),
                   WidgetValue("3", None, 10, One),
                   WidgetValue("4", Some(LVo), 75, One)>>,
                 None, 1, 0)

\* the presets handed to store_preset
Presets == {PSetup, PSetupUpdated, PLower}

(***************************************************************************)
(* The similarity metric.                                                  *)
(***************************************************************************)
MaxOver(S) == IF S = {} THEN 0 ELSE CHOOSE x \in S : \A y \in S : y <= x

\* mutant: an empty token list matches nothing, an empty list included
calculate_label_similarity_empty_first(tokens1, tokens2) ==
    IF tokens1 = <<>> \/ tokens2 = <<>> THEN 0
    ELSE Max2(MaxOver({jaro_winkler(tokens1[i], tokens2[j]) :
                           i \in 1..Len(tokens1), j \in 1..Len(tokens2)}),
              jaro_winkler(Join(tokens1), Join(tokens2)))

calculate_label_similarity(tokens1, tokens2) ==
    IF tokens1 = <<>> /\ tokens2 = <<>> THEN One
    ELSE IF tokens1 = <<>> \/ tokens2 = <<>> THEN 0
    ELSE Max2(MaxOver({jaro_winkler(tokens1[i], tokens2[j]) :
                           i \in 1..Len(tokens1), j \in 1..Len(tokens2)}),
              jaro_winkler(Join(tokens1), Join(tokens2)))

\* calculate_label_similarity on the token lists of the labels of the model,
\* computed once
Labels == {LVol, LVo, LVola, LPan}
RECURSIVE TokensOn(_)
TokensOn(labels) ==
    IF labels = {} THEN <<>>
    ELSE LET l == CHOOSE l \in labels : TRUE
         IN (l :> tokenize_label(l)) @@ TokensOn(labels \ {l})
\* tokenize_label on the labels of the model, computed once
Tokens == TokensOn(Labels)
TokenLists == {Tokens[l] : l \in Labels} \cup {<<>>}
RECURSIVE LabelSimilarityOn(_)
LabelSimilarityOn(pairs) ==
    IF pairs = {} THEN <<>>
    ELSE LET p == CHOOSE p \in pairs : TRUE
         IN (p :> calculate_label_similarity(p[1], p[2]))
                @@ LabelSimilarityOn(pairs \ {p})
LabelSimilarity == LabelSimilarityOn(TokenLists \X TokenLists)

calculate_range_similarity(features1, features2) ==
    LET range_diff == Abs(features1.range - features2.range)
        max_range == Max2(features1.range, features2.range)
        range_sim == IF max_range > 0
                     THEN One - Min2((range_diff * One) \div max_range, One)
                     ELSE One
        min_diff == Abs(features1.min_value - features2.min_value)
        max_diff == Abs(features1.max_value - features2.max_value)
        value_range == Max2(features1.max_value - features1.min_value,
                            features2.max_value - features2.min_value)
        value_sim == IF value_range > 0
                     THEN One - Min2(((min_diff + max_diff) * One) \div (2 * value_range), One)
                     ELSE One
    IN (range_sim + value_sim) \div 2

\* mutant: the weight of the last sub-score is left out of weight_sum
WeightedScoreShortOfWeight(label_sim, range_sim, display_sim, gen_sim) ==
    LET total_score == (label_sim * 4) \div 10 + (range_sim * 3) \div 10
                       + (display_sim * 2) \div 10 + (gen_sim * 1) \div 10
        weight_sum == (4 * One) \div 10 + (3 * One) \div 10 + (2 * One) \div 10
    IN (total_score * One) \div weight_sum

\* the weighted mean of the four sub-scores, the weights being 0.4, 0.3, 0.2, 0.1
WeightedScore(label_sim, range_sim, display_sim, gen_sim) ==
    LET total_score == (label_sim * 4) \div 10 + (range_sim * 3) \div 10
                       + (display_sim * 2) \div 10 + (gen_sim * 1) \div 10
        weight_sum == (4 * One) \div 10 + (3 * One) \div 10 + (2 * One) \div 10
                      + (1 * One) \div 10
    IN (total_score * One) \div weight_sum

\* mutant: two absent display types (identifier 0) do not count as equal
display_similarity_nonzero(features1, features2) ==
    IF features1.display_type_hash = features2.display_type_hash
       /\ features1.display_type_hash # 0
    THEN One ELSE 0

\* display_sim of calculate_similarity
display_similarity(features1, features2) ==
    IF features1.display_type_hash = features2.display_type_hash THEN One ELSE 0

calculate_similarity(features1, features2) ==
    WeightedScore(
        LabelSimilarity[<<features1.label_tokens, features2.label_tokens>>],
        calculate_range_similarity(features1, features2),
        display_similarity(features1, features2),
        IF features1.is_generated = features2.is_generated THEN One ELSE 0)

\* the merge threshold of store_widget, 0.95
MergeThreshold == (95 * One) \div 100
\* the suggestion threshold of get_suggestions, 0.1
SuggestionThreshold == (1 * One) \div 10
\* the label threshold of extract_value_patterns, 0.7
PatternThreshold == (7 * One) \div 10

(***************************************************************************)
(* Sorting and deduplication of f64 value lists.                           *)
(***************************************************************************)
RECURSIVE InsertSorted(_, _)
InsertSorted(sorted, x) ==
    IF sorted = <<>> THEN <<x>>
    ELSE IF x < Head(sorted) THEN <<x>> \o sorted
    ELSE <<Head(sorted)>> \o InsertSorted(Tail(sorted), x)

\* values.sort_by(|a, b| a.partial_cmp(b).unwrap()): a stable ascending sort
RECURSIVE SortAscending(_)
SortAscending(values) ==
    IF values = <<>> THEN <<>>
    ELSE InsertSorted(SortAscending(SubSeq(values, 1, Len(values) - 1)),
                      values[Len(values)])

\* values.dedup_by(|a, b| (*a - *b).abs() < 0.001): drop an element that is
\* within 0.001 of the last element kept
RECURSIVE DedupFrom(_, _, _)
DedupFrom(values, i, kept) ==
    IF i > Len(values) THEN kept
    ELSE IF kept # <<>> /\ Abs(values[i] - kept[Len(kept)]) * 1000 < 1
         THEN DedupFrom(values, i + 1, kept)
         ELSE DedupFrom(values, i + 1, Append(kept, values[i]))
Dedup(values) == DedupFrom(values, 1, <<>>)

RECURSIVE SumSeq(_)
SumSeq(values) == IF values = <<>> THEN 0 ELSE Head(values) + SumSeq(Tail(values))

RECURSIVE Flatten(_)
Flatten(seqs) == IF seqs = <<>> THEN <<>> ELSE Head(seqs) \o Flatten(Tail(seqs))

\* the largest r with r * r <= n
RECURSIVE ISqrtIn(_, _, _)
ISqrtIn(n, lo, hi) ==
    IF lo >= hi THEN lo
    ELSE LET mid == (lo + hi + 1) \div 2
         IN IF mid * mid <= n THEN ISqrtIn(n, mid, hi) ELSE ISqrtIn(n, lo, mid - 1)
ISqrt(n) == ISqrtIn(n, 0, Min2(n, 46340))

(***************************************************************************)
(* Value patterns and value statistics.                                    *)
(***************************************************************************)
\* the values of the preset entries whose label resembles the given tokens
\* the values of a list of preset entries
ValuesOf(widget_values) == [i \in 1..Len(widget_values) |-> widget_values[i].value]

extract_value_patterns(presets_, label_tokens) ==
    Dedup(SortAscending(Flatten(
        [k \in 1..Len(presets_) |->
            ValuesOf(SelectSeq(presets_[k].widget_values, LAMBDA v :
                /\ v.label.some
                /\ LabelSimilarity[<<label_tokens, Tokens[v.label.val]>>]
                       > PatternThreshold))])))

\* the key format!("{:.2}", value) of the frequency table, as hundredths
Bucket(value) == value * 100

\* the percentile ranks 0.1, 0.25, 0.5, 0.75, 0.9, in percent
PercentileRanks == <<10, 25, 50, 75, 90>>

\* the statistics of a sorted list of values
StatsOfSorted(sorted_values) ==
    LET n == Len(sorted_values)
        sum == SumSeq(sorted_values)
        sumsq == SumSeq([i \in 1..n |-> sorted_values[i] * sorted_values[i]])
        mean == (sum * One) \div n
        variance == ((n * sumsq - sum * sum) * One) \div (n * n)
        std_dev == ISqrt(variance) * ISqrt(One)
        percentiles ==
            [k \in 1..Len(PercentileRanks) |->
                LET idx == (PercentileRanks[k] * (n - 1) + 50) \div 100
                IN sorted_values[Min2(idx, n - 1) + 1]]
        keys == {Bucket(sorted_values[i]) : i \in 1..n}
        frequency_map ==
            [b \in keys |-> Cardinality({i \in 1..n : Bucket(sorted_values[i]) = b})]
    IN [common_values |-> SubSeq(sorted_values, 1, Min2(n, 10)),
        frequency_map |-> frequency_map,
        mean |-> mean,
        std_dev |-> std_dev,
        percentiles |-> percentiles]

compute_value_stats(values) == StatsOfSorted(SortAscending(values))

(***************************************************************************)
(* Feature extraction.                                                     *)
(***************************************************************************)
\* mutant: the position is not clamped
normalized_position_unclamped(current_value, min_value, range) ==
    IF current_value.some
    THEN IF range > 0
         THEN ((current_value.val - min_value) * One) \div range
         ELSE One \div 2
    ELSE One \div 2

normalized_position_of(current_value, min_value, range) ==
    IF current_value.some
    THEN IF range > 0
         THEN Clamp(((current_value.val - min_value) * One) \div range, 0, One)
         ELSE One \div 2
    ELSE One \div 2

\* label.as_ref().map(tokenize_label).unwrap_or_default()
LabelTokens(widget) == IF widget.label.some THEN Tokens[widget.label.val] ELSE <<>>

\* the WidgetFeatures of a widget whose label tokens and value patterns are given
FeaturesOf(widget, label_tokens, value_patterns, display_type_hash) ==
    LET min_value == UnwrapOr(widget.minimum, 0)
        max_value == UnwrapOr(widget.maximum, 1)
        range == max_value - min_value
    IN [label_tokens |-> label_tokens,
        min_value |-> min_value,
        max_value |-> max_value,
        range |-> range,
        is_generated |-> IF UnwrapOr(widget.is_generated, FALSE) THEN 1 ELSE 0,
        display_type_hash |-> display_type_hash,
        value_patterns |-> value_patterns,
        normalized_position |->
            normalized_position_of(widget.current_value, min_value, range)]

Features(widget, presets_, display_type_hash) ==
    FeaturesOf(widget, LabelTokens(widget),
               extract_value_patterns(presets_, LabelTokens(widget)),
               display_type_hash)

\* display_types.entry(dt).or_insert(display_types.len())
RegisterDisplayType(display_types_, display_type) ==
    IF ~display_type.some \/ display_type.val \in DOMAIN display_types_
    THEN display_types_
    ELSE [d \in DOMAIN display_types_ \cup {display_type.val} |->
             IF d \in DOMAIN display_types_ THEN display_types_[d]
             ELSE Cardinality(DOMAIN display_types_)]

\* extract_features(&mut self, ..): the features, and the display-type map after
\* the call
extract_features(e, widget) ==
    LET dts == RegisterDisplayType(e.display_types, widget.display_type)
        hash == IF widget.display_type.some THEN dts[widget.display_type.val] ELSE 0
    IN [features |-> Features(widget, e.presets, hash), display_types |-> dts]

\* mutant: the partial extraction registers the display type as extract_features
\* does
extract_features_partial_registering(e, widget) == extract_features(e, widget)

\* extract_features_partial(&self, ..): looks the display type up and registers
\* nothing
extract_features_partial(e, widget) ==
    LET hash == IF widget.display_type.some
                   /\ widget.display_type.val \in DOMAIN e.display_types
                THEN e.display_types[widget.display_type.val]
                ELSE 0
    IN [features |-> Features(widget, e.presets, hash),
        display_types |-> e.display_types]

(***************************************************************************)
(* The engine.  An engine value e has the fields of WidgetSuggestionEngine. *)
(***************************************************************************)
EmptyMap == [d \in {} |-> 0]

\* WidgetSuggestionEngine::new
new == [records |-> <<>>, presets |-> <<>>, display_types |-> EmptyMap, next_id |-> 1]

\* mutant: the last similar record is taken, not the first
similar_index_last(records_, features) ==
    MaxOver({i \in 1..Len(records_) :
                calculate_similarity(features, records_[i].features) > MergeThreshold})

\* records.iter().position(|record| similarity > 0.95), 0 standing for None
similar_index(records_, features) ==
    First({i \in 1..Len(records_) :
              calculate_similarity(features, records_[i].features) > MergeThreshold})

\* the record store_widget pushes when no stored record is similar
NewRecord(id, widget, features, now_) ==
    [id |-> id, widget |-> widget, features |-> features, frequency |-> 1,
     last_seen |-> now_, value_stats |-> None]

\* mutant: the merge forgets to count the observation
MergeIntoUncounted(record, widget, now_) ==
    [record EXCEPT !.last_seen = now_]

\* mutant: the merge restarts the count
MergeIntoRestarted(record, widget, now_) ==
    [record EXCEPT !.frequency = 1, !.last_seen = now_]

\* the update store_widget applies to the similar record
MergeInto(record, widget, now_) ==
    [record EXCEPT !.frequency = @ + 1, !.last_seen = now_]

\* mutant: a created record does not advance next_id
MergeOrPushStaleNextId(e, widget, now_, ef, idx) ==
    IF idx # 0
    THEN [e EXCEPT !.display_types = ef.display_types,
                   !.records[idx] = MergeInto(@, widget, now_)]
    ELSE [e EXCEPT !.display_types = ef.display_types,
                   !.records = Append(@, NewRecord(e.next_id, widget,
                                                   ef.features, now_))]

\* the two branches of store_widget, idx being the position of the similar
\* record or 0
MergeOrPush(e, widget, now_, ef, idx) ==
    IF idx # 0
    THEN [e EXCEPT !.display_types = ef.display_types,
                   !.records[idx] = MergeInto(@, widget, now_)]
    ELSE [e EXCEPT !.display_types = ef.display_types,
                   !.records = Append(@, NewRecord(e.next_id, widget,
                                                   ef.features, now_)),
                   !.next_id = @ + 1]

\* store_widget once the features of the widget are extracted
StoreFeatures(e, widget, now_, ef) ==
    MergeOrPush(e, widget, now_, ef, similar_index(e.records, ef.features))

store_widget(e, widget, now_) ==
    StoreFeatures(e, widget, now_, extract_features(e, widget))

\* a record after its value statistics are recomputed from the given values
WithValueStats(record, values) ==
    IF values # <<>>
    THEN [record EXCEPT !.value_stats = Some(compute_value_stats(values))]
    ELSE record

recompute_value_statistics(e) ==
    [e EXCEPT !.records =
        [i \in 1..Len(e.records) |->
            WithValueStats(e.records[i],
                extract_value_patterns(e.presets,
                                       e.records[i].features.label_tokens))]]

\* mutant: preset names are compared without regard to case
NameLowercase(name) == IF name = "My Setup" THEN "my setup" ELSE name
find_preset_ignoring_case(presets_, name) ==
    First({i \in 1..Len(presets_) :
              NameLowercase(presets_[i].name) = NameLowercase(name)})

\* presets.iter_mut().find(|p| p.name == preset.name), 0 standing for None
find_preset(presets_, name) ==
    First({i \in 1..Len(presets_) : presets_[i].name = name})

\* the update store_preset applies to the preset of the same name
UpdateExisting(existing, preset, now_) ==
    [existing EXCEPT !.usage_count = @ + 1, !.last_used = now_]

store_preset(e, preset, now_) ==
    LET idx == find_preset(e.presets, preset.name)
        stored == IF idx # 0
                  THEN [e EXCEPT !.presets[idx] = UpdateExisting(@, preset, now_)]
                  ELSE [e EXCEPT !.presets = Append(@, preset)]
    IN recompute_value_statistics(stored)

\* similarities.sort_by(|a, b| b.0.partial_cmp(&a.0).unwrap()): a stable sort of
\* the (similarity, record) pairs by descending similarity
RECURSIVE InsertBySimilarity(_, _)
InsertBySimilarity(sorted, x) ==
    IF sorted = <<>> THEN <<x>>
    ELSE IF x[1] >= Head(sorted)[1] THEN <<x>> \o sorted
    ELSE <<Head(sorted)>> \o InsertBySimilarity(Tail(sorted), x)

\* mutant: the pairs are left in insertion order
SortBySimilarityOmitted(pairs) == pairs

\* inserts from the back, so that equal similarities keep their original order
RECURSIVE SortBySimilarity(_)
SortBySimilarity(pairs) ==
    IF pairs = <<>> THEN <<>>
    ELSE InsertBySimilarity(SortBySimilarity(Tail(pairs)), Head(pairs))

\* the value suggestion made from the value patterns of a label
ValueSuggestion(values) ==
    IF values = <<>>
    THEN [suggested_value |-> None, value_confidence |-> 0,
          alternative_values |-> <<>>]
    ELSE [suggested_value |-> Some(values[1]),
          value_confidence |-> (8 * One) \div 10,
          alternative_values |-> SubSeq(values, 2, Min2(Len(values), 4))]

suggest_values(e, widget) ==
    ValueSuggestion(extract_value_patterns(e.presets, LabelTokens(widget)))

\* mutant: the frequency term is not capped at 0.3
confidence_uncapped(similarity, frequency) ==
    (similarity * 7) \div 10 + (frequency * One) \div 10

\* similarity * 0.7 + (frequency / 10.0).min(0.3)
confidence_of(similarity, frequency) ==
    (similarity * 7) \div 10 + Min2((frequency * One) \div 10, (3 * One) \div 10)

\* a number as format!("{:.2}") prints it, in hundredths
Round2(x) == (x * 100 + One \div 2) \div One

\* the Suggestion built from one (similarity, record) pair
Suggestion(v, similarity, record) ==
       [widget |-> record.widget,
        confidence |-> confidence_of(similarity, record.frequency),
        reason |-> [similarity |-> Round2(similarity), frequency |-> record.frequency],
        suggested_value |-> v.suggested_value,
        value_confidence |-> v.value_confidence,
        alternative_values |-> v.alternative_values]

\* mutant: the list is not cut to max_suggestions
TakeAll(s, n) == s

\* Iterator::take(n)
Take(s, n) == SubSeq(s, 1, Min2(n, Len(s)))

\* the (similarity, index of the record) pairs get_suggestions keeps: sorted,
\* then take(max_suggestions), then filter(similarity > 0.1)
ranked(e, partial_features, max_suggestions) ==
    SelectSeq(
        Take(SortBySimilarity(
                 [i \in 1..Len(e.records) |->
                     <<calculate_similarity(partial_features, e.records[i].features),
                       i>>]),
             max_suggestions),
        LAMBDA p : p[1] > SuggestionThreshold)

\* the result of get_suggestions, kept being the ranked pairs and v the value
\* suggestion
Suggestions(after, kept, v) ==
    [ret |-> [value |-> [k \in 1..Len(kept) |->
                            Suggestion(v, kept[k][1], after.records[kept[k][2]])],
              from |-> [k \in 1..Len(kept) |-> after.records[kept[k][2]].id]],
     engine |-> after]

\* get_suggestions once the partial features are extracted
SuggestionsFor(e, partial_widget, max_suggestions, pf) ==
    Suggestions([e EXCEPT !.display_types = pf.display_types],
                ranked(e, pf.features, max_suggestions),
                suggest_values(e, partial_widget))

\* get_suggestions(&self, ..): the suggestions returned, the id of the record each
\* one was built from, and the engine after the call
get_suggestions(e, partial_widget, max_suggestions) ==
    SuggestionsFor(e, partial_widget, max_suggestions,
                   extract_features_partial(e, partial_widget))

\* the numbers of the sentence get_preset_insights formats
InsightNumbers(count, stats) ==
    [count |-> count,
     mean |-> Round2(stats.mean),
     std_dev |-> Round2(stats.std_dev),
     median |-> Round2(stats.percentiles[3] * One)]

\* the insight into the value patterns of a label, None when there are none
Insight(values) ==
    IF values = <<>> THEN None
    ELSE Some(InsightNumbers(Len(values), compute_value_stats(values)))

\* get_preset_insights once the partial features are extracted
InsightsFor(e, pf) ==
    [ret |-> [value |-> Insight(extract_value_patterns(e.presets,
                                                       pf.features.label_tokens))],
     engine |-> [e EXCEPT !.display_types = pf.display_types]]

\* get_preset_insights(&self, ..): the numbers of the sentence returned, or None
get_preset_insights(e, widget) == InsightsFor(e, extract_features_partial(e, widget))

\* get_stats(&self)
get_stats(e) ==
    [ret |-> [value |-> [total_widgets |-> Len(e.records),
                         presets_stored |-> Len(e.presets),
                         unique_display_types |-> Cardinality(DOMAIN e.display_types)]],
     engine |-> e]

(***************************************************************************)
(* The state machine: one engine, driven by calls of its public methods.   *)
(***************************************************************************)
VARIABLES
    records,        \* WidgetSuggestionEngine.records
    presets,        \* WidgetSuggestionEngine.presets
    display_types,  \* WidgetSuggestionEngine.display_types
    next_id,        \* WidgetSuggestionEngine.next_id
    now,            \* SystemTime::now() in seconds: one second passes per call
                    \* that reads the clock
    call,           \* the last call made: its name and arguments
    ret,            \* what the last call returned
    observed,       \* history: record id -> number of store_widget calls that
                    \* created the record or were merged into it
    store_calls,    \* history: number of store_widget calls made
    preset_calls,   \* history: number of store_preset calls made
    widgets_tree,   \* SledPersistenceManager.widgets_tree: key -> bytes
    presets_tree,   \* SledPersistenceManager.presets_tree: key -> bytes
    metadata_tree,  \* SledPersistenceManager.metadata_tree: key -> bytes
    closed,         \* history: the engine as it was when the database was last
                    \* closed, or the engine data was last exported from
    widget_descriptions,  \* KymaWidgetExtractor.widget_descriptions
    threads         \* StandaloneIntelligenceService shared between threads: who
                    \* holds the Mutex of system and of extractor, and where
                    \* each thread is in the operation it runs

\* the three trees of the sled database
database == <<widgets_tree, presets_tree, metadata_tree>>

vars == <<records, presets, display_types, next_id, now, call, ret, observed,
          store_calls, preset_calls, widgets_tree, presets_tree, metadata_tree,
          closed, widget_descriptions, threads>>

\* the number of threads sharing the service, and of operations they start
MaxThreads == 2
MaxOperations == 3

Threads == 1..MaxThreads

\* a Mutex nobody holds, and a thread running no operation
Free == 0
Idle == [op |-> "idle"]

\* the service as constructed: both locks free, every thread idle
ThreadsInit ==
    [pc |-> [t \in Threads |-> Idle], system |-> Free, extractor |-> Free,
     started |-> 0]

engine == [records |-> records, presets |-> presets,
           display_types |-> display_types, next_id |-> next_id]

SetEngine(e) ==
    /\ records' = e.records
    /\ presets' = e.presets
    /\ display_types' = e.display_types
    /\ next_id' = e.next_id

\* a query returns: the engine the call leaves, and the value handed back
Return(r) ==
    /\ SetEngine(r.engine)
    /\ ret' = r.ret

Unit == [unit |-> TRUE]

Init ==
    /\ records = new.records
    /\ presets = new.presets
    /\ display_types = new.display_types
    /\ next_id = new.next_id
    /\ now = 1
    /\ call = [op |-> "new"]
    /\ ret = Unit
    /\ observed = EmptyMap
    /\ store_calls = 0
    /\ preset_calls = 0
    /\ widgets_tree = EmptyMap
    /\ presets_tree = EmptyMap
    /\ metadata_tree = EmptyMap
    /\ closed = new
    /\ widget_descriptions = EmptyMap
    /\ threads = ThreadsInit

\* the id of the record at position idx, or the id the next record gets when
\* idx is 0
IdAt(e, idx) == IF idx # 0 THEN e.records[idx].id ELSE e.next_id

\* the id of the record a store_widget call goes to: the similar one, or the one
\* it creates
Target(before, widget) ==
    IdAt(before, similar_index(before.records,
                               extract_features(before, widget).features))

Count(f, k) == IF k \in DOMAIN f THEN f[k] ELSE 0

\* the history after one more call went to the record of this id
Observe(f, id) ==
    [k \in DOMAIN f \cup {id} |-> Count(f, k) + IF k = id THEN 1 ELSE 0]

StoreWidget ==
    /\ store_calls + preset_calls < MaxCalls
    /\ \E widget \in Widgets :
          /\ SetEngine(store_widget(engine, widget, now))
          /\ now' = now + 1
          /\ call' = [op |-> "store_widget", widget |-> widget]
          /\ ret' = Unit
          /\ observed' = Observe(observed, Target(engine, widget))
          /\ store_calls' = store_calls + 1
          /\ UNCHANGED <<threads, preset_calls, database, closed, widget_descriptions>>

StorePreset ==
    /\ store_calls + preset_calls < MaxCalls
    /\ \E preset \in Presets :
          /\ SetEngine(store_preset(engine, preset, now))
          /\ now' = now + 1
          /\ call' = [op |-> "store_preset", preset |-> preset]
          /\ ret' = Unit
          /\ preset_calls' = preset_calls + 1
          /\ UNCHANGED <<threads, observed, store_calls, database, closed, widget_descriptions>>

GetSuggestions ==
    \E partial_widget \in QueryWidgets, max_suggestions \in SuggestionCounts :
        /\ Return(get_suggestions(engine, partial_widget, max_suggestions))
        /\ call' = [op |-> "get_suggestions", widget |-> partial_widget,
                    max_suggestions |-> max_suggestions]
        /\ UNCHANGED <<threads, now, observed, store_calls, preset_calls, database, closed,
                       widget_descriptions>>

GetPresetInsights ==
    \E widget \in QueryWidgets :
        /\ Return(get_preset_insights(engine, widget))
        /\ call' = [op |-> "get_preset_insights", widget |-> widget]
        /\ UNCHANGED <<threads, now, observed, store_calls, preset_calls, database, closed,
                       widget_descriptions>>

GetStats ==
    /\ Return(get_stats(engine))
    /\ call' = [op |-> "get_stats"]
    /\ UNCHANGED <<threads, now, observed, store_calls, preset_calls, database, closed,
                   widget_descriptions>>

Next ==
    \/ StoreWidget
    \/ StorePreset
    \/ GetSuggestions
    \/ GetPresetInsights
    \/ GetStats

Spec == Init /\ [][Next]_vars

(***************************************************************************)
(* The functions of the engine on their own: calculate_similarity,         *)
(* extract_features and the confidence of a suggestion, applied to inputs  *)
(* drawn from bounded sets that hold the degenerate cases: absent labels,  *)
(* zero and negative ranges, current values outside the bounds.            *)
(***************************************************************************)
\* (minimum, maximum): absent, 0..100, the empty range 50..50, the inverted
\* range 100..0, and -50..50
Bounds == {<<None, None>>, <<Some(0), Some(100)>>, <<Some(50), Some(50)>>,
           <<Some(100), Some(0)>>, <<Some(-50), Some(50)>>}

\* the widgets handed to extract_features
FeatureWidgets ==
    {Widget(label, b[1], b[2], is_generated, display_type, current_value) :
        label \in {None, Some(LVol), Some(LVola), Some(LPan)},
        b \in Bounds,
        is_generated \in {None, Some(TRUE)},
        display_type \in {None, Some("slider")},
        current_value \in {None, Some(50), Some(120), Some(-60)}}

\* the identifiers a widget's display type can have: 0 when it has none, and 0
\* or 1 as it was the first or the second display type the engine saw
HashesOf(widget) == IF widget.display_type.some THEN {0, 1} ELSE {0}

\* the feature vectors handed to calculate_similarity
FeatureVectors ==
    UNION {{Features(widget, <<>>, hash) : hash \in HashesOf(widget)} :
              widget \in {w \in FeatureWidgets : ~w.current_value.some}}

\* the similarities get_suggestions computes a confidence for: the hundredths
\* above 0.1, and the least score above 0.1
Similarities ==
    {SuggestionThreshold + 1} \cup {k * (One \div 100) : k \in 11..100}

\* the lists of observed values handed to compute_value_stats
ObservedValues == {10, 50, 75}
ValueLists ==
    {<<a>> : a \in ObservedValues}
    \cup {<<a, b>> : a \in ObservedValues, b \in ObservedValues}
    \cup {<<a, b, c>> : a \in ObservedValues, b \in ObservedValues, c \in ObservedValues}

\* WidgetMetadata, of which normalize_value and denormalize_value read the bounds
WidgetMetadata(minimum, maximum) == [minimum |-> minimum, maximum |-> maximum]

\* the bounds of the metadata and the values normalized, in units of 1 / One
MetadataBounds == {None, Some(0 - One), Some(0), Some((7 * One) \div 10), Some(One),
                   Some(3 * One)}
Metadatas ==
    {WidgetMetadata(minimum, maximum) :
        minimum \in MetadataBounds, maximum \in MetadataBounds}
NormalizedValues ==
    {0 - 2 * One, 0 - (3 * One) \div 10, 0, One \div 10, One \div 3, One \div 2, One,
     (5 * One) \div 2}

\* mutant: the normalized value is kept within 0 and 1
normalize_value_clamped(metadata, value) ==
    IF metadata.minimum.some /\ metadata.maximum.some
       /\ metadata.maximum.val > metadata.minimum.val
    THEN Some(Clamp(((value - metadata.minimum.val) * One)
                        \div (metadata.maximum.val - metadata.minimum.val), 0, One))
    ELSE None

\* WidgetMetadata::normalize_value
normalize_value(metadata, value) ==
    IF metadata.minimum.some /\ metadata.maximum.some
       /\ metadata.maximum.val > metadata.minimum.val
    THEN Some(((value - metadata.minimum.val) * One)
                  \div (metadata.maximum.val - metadata.minimum.val))
    ELSE None

\* WidgetMetadata::denormalize_value
denormalize_value(metadata, normalized_value) ==
    IF metadata.minimum.some /\ metadata.maximum.some
       /\ metadata.maximum.val > metadata.minimum.val
    THEN Some(metadata.minimum.val
              + (normalized_value * (metadata.maximum.val - metadata.minimum.val))
                    \div One)
    ELSE None

\* the calls made: one function applied to one input
FunctionCalls ==
    {[op |-> "calculate_similarity", features1 |-> features1,
      features2 |-> features2] :
        features1 \in FeatureVectors, features2 \in FeatureVectors}
    \cup {[op |-> "extract_features", widget |-> widget] : widget \in FeatureWidgets}
    \cup {[op |-> "confidence", similarity |-> similarity, frequency |-> frequency] :
             similarity \in Similarities, frequency \in 1..MaxFrequency}
    \cup {[op |-> "calculate_label_similarity", tokens1 |-> tokens1,
           tokens2 |-> tokens2] :
             tokens1 \in TokenLists, tokens2 \in TokenLists}
    \cup {[op |-> "compute_value_stats", values |-> values] : values \in ValueLists}
    \cup {[op |-> "normalize_value", metadata |-> metadata, value |-> value] :
             metadata \in Metadatas, value \in NormalizedValues}

\* the call has not returned yet
Pending == [pending |-> TRUE]

\* a new engine, and one call about to be made
FunctionInit ==
    /\ records = new.records
    /\ presets = new.presets
    /\ display_types = new.display_types
    /\ next_id = new.next_id
    /\ now = 1
    /\ call \in FunctionCalls
    /\ ret = Pending
    /\ observed = EmptyMap
    /\ store_calls = 0
    /\ preset_calls = 0
    /\ widgets_tree = EmptyMap
    /\ presets_tree = EmptyMap
    /\ metadata_tree = EmptyMap
    /\ closed = new
    /\ widget_descriptions = EmptyMap
    /\ threads = ThreadsInit

CalculateSimilarity ==
    /\ call.op = "calculate_similarity"
    /\ ret = Pending
    /\ ret' = [value |-> calculate_similarity(call.features1, call.features2)]
    /\ UNCHANGED <<threads, records, presets, display_types, next_id, now, call, observed,
                   store_calls, preset_calls, database, closed, widget_descriptions>>

\* extract_features returns the features and leaves the display type registered
Extracted(ef) ==
    /\ display_types' = ef.display_types
    /\ ret' = [value |-> ef.features]

ExtractFeatures ==
    /\ call.op = "extract_features"
    /\ ret = Pending
    /\ Extracted(extract_features(engine, call.widget))
    /\ UNCHANGED <<threads, records, presets, next_id, now, call, observed, store_calls,
                   preset_calls, database, closed, widget_descriptions>>

Confidence ==
    /\ call.op = "confidence"
    /\ ret = Pending
    /\ ret' = [value |-> confidence_of(call.similarity, call.frequency)]
    /\ UNCHANGED <<threads, records, presets, display_types, next_id, now, call, observed,
                   store_calls, preset_calls, database, closed, widget_descriptions>>

CalculateLabelSimilarity ==
    /\ call.op = "calculate_label_similarity"
    /\ ret = Pending
    /\ ret' = [value |-> calculate_label_similarity(call.tokens1, call.tokens2)]
    /\ UNCHANGED <<threads, records, presets, display_types, next_id, now, call, observed,
                   store_calls, preset_calls, database, closed, widget_descriptions>>

ComputeValueStats ==
    /\ call.op = "compute_value_stats"
    /\ ret = Pending
    /\ ret' = [value |-> compute_value_stats(call.values)]
    /\ UNCHANGED <<threads, records, presets, display_types, next_id, now, call, observed,
                   store_calls, preset_calls, database, closed, widget_descriptions>>

NormalizeValue ==
    /\ call.op = "normalize_value"
    /\ ret = Pending
    /\ ret' = [normalized |-> normalize_value(call.metadata, call.value)]
    /\ UNCHANGED <<threads, records, presets, display_types, next_id, now, call, observed,
                   store_calls, preset_calls, database, closed, widget_descriptions>>

\* the normalized value is handed back to denormalize_value; when there is none,
\* the value itself is
Denormalized(metadata, normalized, value) ==
    [normalized |-> normalized,
     denormalized |-> denormalize_value(metadata, UnwrapOr(normalized, value))]

DenormalizeValue ==
    /\ call.op = "normalize_value"
    /\ DOMAIN ret = {"normalized"}
    /\ ret' = Denormalized(call.metadata, ret.normalized, call.value)
    /\ UNCHANGED <<threads, records, presets, display_types, next_id, now, call, observed,
                   store_calls, preset_calls, database, closed, widget_descriptions>>

FunctionNext ==
    \/ CalculateSimilarity
    \/ ExtractFeatures
    \/ Confidence
    \/ CalculateLabelSimilarity
    \/ ComputeValueStats
    \/ NormalizeValue
    \/ DenormalizeValue

FunctionSpec == FunctionInit /\ [][FunctionNext]_vars

(***************************************************************************)
(* Persistence (src/src/persistence.rs).  A sled tree is a map from keys   *)
(* to byte strings that iterates in key order.  bincode writes a struct as *)
(* its fields in declaration order and an Option as a tag followed by the  *)
(* value; a byte string is modelled as the sequence of the encoded fields, *)
(* and one that was cut short does not decode.                             *)
(***************************************************************************)
Ok(x) == [ok |-> TRUE, val |-> x]
Err == [ok |-> FALSE]

EncodeOption(o) == IF o.some THEN <<1, o.val>> ELSE <<0>>
DecodeOption(bytes) == IF bytes[1] = 1 THEN Some(bytes[2]) ELSE None

serialize_widget(widget) ==
    <<EncodeOption(widget.label), EncodeOption(widget.minimum),
      EncodeOption(widget.maximum), EncodeOption(widget.is_generated),
      EncodeOption(widget.display_type), EncodeOption(widget.current_value)>>

deserialize_widget(bytes) ==
    Widget(DecodeOption(bytes[1]), DecodeOption(bytes[2]), DecodeOption(bytes[3]),
           DecodeOption(bytes[4]), DecodeOption(bytes[5]), DecodeOption(bytes[6]))

serialize_features(features) ==
    <<features.label_tokens, features.min_value, features.max_value,
      features.range, features.is_generated, features.display_type_hash,
      features.value_patterns, features.normalized_position>>

deserialize_features(bytes) ==
    [label_tokens |-> bytes[1], min_value |-> bytes[2], max_value |-> bytes[3],
     range |-> bytes[4], is_generated |-> bytes[5], display_type_hash |-> bytes[6],
     value_patterns |-> bytes[7], normalized_position |-> bytes[8]]

serialize_stats(stats) ==
    <<stats.common_values, stats.frequency_map, stats.mean, stats.std_dev,
      stats.percentiles>>

deserialize_stats(bytes) ==
    [common_values |-> bytes[1], frequency_map |-> bytes[2], mean |-> bytes[3],
     std_dev |-> bytes[4], percentiles |-> bytes[5]]

\* bincode::serialize(record)
serialize_record(record) ==
    <<record.id, serialize_widget(record.widget),
      serialize_features(record.features), record.frequency, record.last_seen,
      IF record.value_stats.some
      THEN <<1, serialize_stats(record.value_stats.val)>> ELSE <<0>>>>

\* bincode::deserialize::<WidgetRecord>(&value)
deserialize_record(bytes) ==
    IF Len(bytes) # 6 THEN Err
    ELSE Ok([id |-> bytes[1],
             widget |-> deserialize_widget(bytes[2]),
             features |-> deserialize_features(bytes[3]),
             frequency |-> bytes[4],
             last_seen |-> bytes[5],
             value_stats |-> IF bytes[6][1] = 1
                             THEN Some(deserialize_stats(bytes[6][2])) ELSE None])

serialize_widget_value(v) ==
    <<v.widget_id, EncodeOption(v.label), v.value, v.confidence>>

deserialize_widget_value(bytes) ==
    WidgetValue(bytes[1], DecodeOption(bytes[2]), bytes[3], bytes[4])

\* bincode::serialize(preset)
serialize_preset(preset) ==
    <<preset.name, EncodeOption(preset.description),
      [i \in 1..Len(preset.widget_values) |->
          serialize_widget_value(preset.widget_values[i])],
      EncodeOption(preset.created_by), preset.usage_count, preset.last_used>>

\* bincode::deserialize::<Preset>(&value)
deserialize_preset(bytes) ==
    IF Len(bytes) # 6 THEN Err
    ELSE Ok(Preset(bytes[1], DecodeOption(bytes[2]),
                   [i \in 1..Len(bytes[3]) |-> deserialize_widget_value(bytes[3][i])],
                   DecodeOption(bytes[4]), bytes[5], bytes[6]))

\* u64::to_string: the decimal digits
RECURSIVE to_string(_)
to_string(n) ==
    IF n < 10 THEN <<n>> ELSE Append(to_string(n \div 10), n % 10)

\* str::parse::<u64>
RECURSIVE ParseDigits(_, _, _)
ParseDigits(digits, i, acc) ==
    IF i > Len(digits) THEN Ok(acc)
    ELSE IF digits[i] \notin 0..9 THEN Err
    ELSE ParseDigits(digits, i + 1, acc * 10 + digits[i])
parse(digits) == IF digits = <<>> THEN Err ELSE ParseDigits(digits, 1, 0)

\* Tree::insert
Insert(tree, key, value) ==
    [k \in DOMAIN tree \cup {key} |-> IF k = key THEN value ELSE tree[k]]

\* the keys of the widgets tree in iteration order: id.to_be_bytes() sorts as
\* the ids do
RECURSIVE IdsInOrder(_)
IdsInOrder(ids) ==
    IF ids = {} THEN <<>>
    ELSE LET least == CHOOSE i \in ids : \A k \in ids : i <= k
         IN <<least>> \o IdsInOrder(ids \ {least})

\* the preset names of the model as their bytes sort: "M" is before "m"
NamesInByteOrder == <<"My Setup", "my setup">>

\* the keys of the presets tree in iteration order
NamesInOrder(names) == SelectSeq(NamesInByteOrder, LAMBDA n : n \in names)

\* the loop of load_all_widgets / load_all_presets over the decoded entries: the
\* first entry that fails to decode ends the load with its error
Collected(decoded) ==
    IF \E i \in 1..Len(decoded) : ~decoded[i].ok THEN Err
    ELSE Ok([i \in 1..Len(decoded) |-> decoded[i].val])

\* the entries of a tree under the given keys, each decoded
DecodedWidgets(tree, keys) ==
    [i \in 1..Len(keys) |-> deserialize_record(tree[keys[i]])]
DecodedPresets(tree, keys) ==
    [i \in 1..Len(keys) |-> deserialize_preset(tree[keys[i]])]

load_all_widgets(tree) == Collected(DecodedWidgets(tree, IdsInOrder(DOMAIN tree)))
load_all_presets(tree) == Collected(DecodedPresets(tree, NamesInOrder(DOMAIN tree)))

\* load_metadata("next_id").ok().flatten() and next_id.parse::<u64>()
load_next_id(tree) ==
    IF "next_id" \in DOMAIN tree THEN parse(tree["next_id"]) ELSE Err

\* the engine PersistentWidgetSuggestionEngine::new builds from what was loaded
Loaded(e, widgets, presets_, id) ==
    [records |-> IF widgets.ok THEN widgets.val ELSE e.records,
     presets |-> IF presets_.ok THEN presets_.val ELSE e.presets,
     display_types |-> e.display_types,
     next_id |-> IF id.ok THEN id.val ELSE e.next_id]

\* PersistentWidgetSuggestionEngine::new on a database with these trees
persistent_new(widgets, presets_, metadata) ==
    Loaded(new, load_all_widgets(widgets), load_all_presets(presets_),
           load_next_id(metadata))

\* the record PersistentWidgetSuggestionEngine::store_widget writes after a
\* merge: the first one of frequency above 1
first_frequent(records_) ==
    First({i \in 1..Len(records_) : records_[i].frequency > 1})

\* mutant: a record is written when a widget was merged, not when one was created
StoredWidgetsOnMerge(tree, before, after, frequent) ==
    IF Len(after) > Len(before)
    THEN tree
    ELSE IF frequent # 0
         THEN Insert(tree, after[frequent].id, serialize_record(after[frequent]))
         ELSE tree

\* the widgets tree after PersistentWidgetSuggestionEngine::store_widget, the
\* engine having gone from the records before to the records after
StoredWidgets(tree, before, after, frequent) ==
    IF Len(after) > Len(before)
    THEN Insert(tree, after[Len(after)].id, serialize_record(after[Len(after)]))
    ELSE IF frequent # 0
         THEN Insert(tree, after[frequent].id, serialize_record(after[frequent]))
         ELSE tree

\* mutant: next_id is not written when a record is created
StoredMetadataUnwritten(tree, before, after, next_id_) == tree

\* the metadata tree after PersistentWidgetSuggestionEngine::store_widget
StoredMetadata(tree, before, after, next_id_) ==
    IF Len(after) > Len(before)
    THEN Insert(tree, "next_id", to_string(next_id_))
    ELSE tree

\* the trees after import_data wrote every record and every preset of the data
RECURSIVE InsertRecords(_, _)
InsertRecords(tree, records_) ==
    IF records_ = <<>> THEN tree
    ELSE InsertRecords(Insert(tree, Head(records_).id, serialize_record(Head(records_))),
                       Tail(records_))
RECURSIVE InsertPresets(_, _)
InsertPresets(tree, presets_) ==
    IF presets_ = <<>> THEN tree
    ELSE InsertPresets(Insert(tree, Head(presets_).name, serialize_preset(Head(presets_))),
                       Tail(presets_))

\* export_data
export_data(e) ==
    [widgets |-> e.records, presets |-> e.presets,
     display_types |-> e.display_types, next_id |-> e.next_id]

\* mutant: import_data leaves the display types of the engine as they are
imported_without_display_types(e, data) ==
    [records |-> data.widgets, presets |-> data.presets,
     display_types |-> e.display_types, next_id |-> data.next_id]

\* the engine after import_data
imported(e, data) ==
    [records |-> data.widgets, presets |-> data.presets,
     display_types |-> data.display_types, next_id |-> data.next_id]

\* a byte string cut short
Truncated(bytes) == SubSeq(bytes, 1, Len(bytes) - 1)

\* every entry of the two trees decodes
Intact ==
    /\ \A k \in DOMAIN widgets_tree : deserialize_record(widgets_tree[k]).ok
    /\ \A k \in DOMAIN presets_tree : deserialize_preset(presets_tree[k]).ok

\* a query that the display type decides: an unlabelled knob far from every
\* stored range
QKnob == Widget(None, Some(1000), Some(1001), None, Some("knob"), None)

\* the queries put to the engine before it is closed and after it is reopened
ReopenQueries == QueryWidgets \cup {QKnob}

\* the number of suggestions get_suggestions returns
SuggestionCount(e, partial_widget, max_suggestions) ==
    Len(get_suggestions(e, partial_widget, max_suggestions).ret.value)

\* the widgets handed to store_widget of the persistent engine
PersistentWidgets == {WVol, WVo, WPan, WEmpty}

PersistentStoreWidget ==
    /\ store_calls + preset_calls < MaxStores
    /\ \E widget \in PersistentWidgets :
          /\ SetEngine(store_widget(engine, widget, now))
          /\ widgets_tree' = StoredWidgets(widgets_tree, records, records',
                                           first_frequent(records'))
          /\ metadata_tree' = StoredMetadata(metadata_tree, records, records',
                                             next_id')
          /\ now' = now + 1
          /\ call' = [op |-> "store_widget", widget |-> widget]
          /\ ret' = Ok(Unit)
          /\ observed' = Observe(observed, Target(engine, widget))
          /\ store_calls' = store_calls + 1
          /\ UNCHANGED <<threads, preset_calls, presets_tree, closed, widget_descriptions>>

PersistentStorePreset ==
    /\ store_calls + preset_calls < MaxStores
    /\ \E preset \in Presets :
          /\ SetEngine(store_preset(engine, preset, now))
          /\ presets_tree' = Insert(presets_tree, preset.name, serialize_preset(preset))
          /\ now' = now + 1
          /\ call' = [op |-> "store_preset", preset |-> preset]
          /\ ret' = Ok(Unit)
          /\ preset_calls' = preset_calls + 1
          /\ UNCHANGED <<threads, observed, store_calls, widgets_tree, metadata_tree, closed,
                         widget_descriptions>>

\* flush(), drop, and PersistentWidgetSuggestionEngine::new on the same path
Reopen ==
    /\ SetEngine(persistent_new(widgets_tree, presets_tree, metadata_tree))
    /\ closed' = engine
    /\ call' = [op |-> "reopen"]
    /\ ret' = Ok(Unit)
    /\ UNCHANGED <<threads, now, observed, store_calls, preset_calls, database,
                   widget_descriptions>>

\* export_data(), then PersistentWidgetSuggestionEngine::new on an empty path and
\* import_data there: the variables go on with the importing engine
ImportData ==
    /\ SetEngine(imported(persistent_new(EmptyMap, EmptyMap, EmptyMap),
                          export_data(engine)))
    /\ widgets_tree' = InsertRecords(EmptyMap, export_data(engine).widgets)
    /\ presets_tree' = InsertPresets(EmptyMap, export_data(engine).presets)
    /\ metadata_tree' = Insert(EmptyMap, "next_id", to_string(next_id'))
    /\ closed' = engine
    /\ call' = [op |-> "import_data"]
    /\ ret' = Ok(Unit)
    /\ UNCHANGED <<threads, now, observed, store_calls, preset_calls, widget_descriptions>>

\* the environment damages one persisted widget entry
CorruptWidget ==
    /\ Intact
    /\ \E k \in DOMAIN widgets_tree :
          widgets_tree' = Insert(widgets_tree, k, Truncated(widgets_tree[k]))
    /\ call' = [op |-> "corrupt"]
    /\ ret' = Unit
    /\ UNCHANGED <<threads, records, presets, display_types, next_id, now, observed,
                   store_calls, preset_calls, presets_tree, metadata_tree, closed,
                   widget_descriptions>>

\* the environment damages one persisted preset entry
CorruptPreset ==
    /\ Intact
    /\ \E k \in DOMAIN presets_tree :
          presets_tree' = Insert(presets_tree, k, Truncated(presets_tree[k]))
    /\ call' = [op |-> "corrupt"]
    /\ ret' = Unit
    /\ UNCHANGED <<threads, records, presets, display_types, next_id, now, observed,
                   store_calls, preset_calls, widgets_tree, metadata_tree, closed,
                   widget_descriptions>>

PersistentNext ==
    \/ PersistentStoreWidget
    \/ PersistentStorePreset
    \/ Reopen
    \/ ImportData

\* the persistent engine on a database that stays as it was written
PersistentSpec == Init /\ [][PersistentNext]_vars

CorruptibleNext ==
    \/ PersistentStoreWidget
    \/ PersistentStorePreset
    \/ Reopen
    \/ ImportData
    \/ CorruptWidget
    \/ CorruptPreset

\* the persistent engine on a database of which one entry can get damaged
CorruptibleSpec == Init /\ [][CorruptibleNext]_vars

(***************************************************************************)
(* The standalone service (src/src/tauri_examples.rs) and the description  *)
(* cache (src/src/kyma_extractor.rs).  A JSON text is modelled as the      *)
(* sequence of its tokens; the values of the texts of the model are        *)
(* scalars.  A serde_json Number is an integer (PosInt, NegInt) or a Float.*)
(***************************************************************************)
Error(message) == [ok |-> FALSE, err |-> message]

\* a token: its type and, by type, its characters, its number or its truth value
Token(t, s, kind, n, b) == [t |-> t, s |-> s, kind |-> kind, n |-> n, b |-> b]
Punct(c) == Token(c, <<>>, "", 0, FALSE)
JString(s) == Token("string", s, "", 0, FALSE)
JInt(n) == Token("number", <<>>, IF n < 0 THEN "NegInt" ELSE "PosInt", n, FALSE)
JFloat(x) == Token("number", <<>>, "Float", x, FALSE)
JBool(b) == Token("bool", <<>>, "", 0, b)

\* the field names of a description, as characters
KConcreteEventID == <<"c", "o", "n", "c", "r", "e", "t", "e", "E", "v", "e", "n", "t", "I", "D">>
KLabel == <<"l", "a", "b", "e", "l">>
KName == <<"n", "a", "m", "e">>
KTitle == <<"t", "i", "t", "l", "e">>
KMinimum == <<"m", "i", "n", "i", "m", "u", "m">>
KMaximum == <<"m", "a", "x", "i", "m", "u", "m">>
KIsGenerated == <<"i", "s", "G", "e", "n", "e", "r", "a", "t", "e", "d">>
KDisplayType == <<"d", "i", "s", "p", "l", "a", "y", "T", "y", "p", "e">>
KWidgetType == <<"w", "i", "d", "g", "e", "t", "T", "y", "p", "e">>
KControlType == <<"c", "o", "n", "t", "r", "o", "l", "T", "y", "p", "e">>

\* the display types of the descriptions, as characters
CSlider == <<"s", "l", "i", "d", "e", "r">>
CKnob == <<"k", "n", "o", "b">>

\* the display type of a widget of the model that has these characters
DisplayTypeOf(chars) ==
    IF chars = CSlider THEN "slider"
    ELSE IF chars = CKnob THEN "knob"
    ELSE "other"

IsValueToken(token) == token.t \in {"string", "number", "bool", "null"}

\* the members of a JSON object from position i on: key, colon, value, then a
\* comma and the next member, or the closing brace at the end of the text
RECURSIVE ParseMembers(_, _, _)
ParseMembers(text, i, map) ==
    IF i + 3 > Len(text) THEN Err
    ELSE IF text[i].t # "string" \/ text[i + 1].t # ":" \/ ~IsValueToken(text[i + 2])
    THEN Err
    ELSE IF text[i + 3].t = ","
    THEN ParseMembers(text, i + 4, Insert(map, text[i].s, text[i + 2]))
    ELSE IF text[i + 3].t = "}" /\ i + 3 = Len(text)
    THEN Ok(Insert(map, text[i].s, text[i + 2]))
    ELSE Err

\* serde_json::from_str::<HashMap<String, Value>>
from_str(text) ==
    IF Len(text) < 2 \/ text[1].t # "{" THEN Err
    ELSE IF Len(text) = 2 /\ text[2].t = "}" THEN Ok(EmptyMap)
    ELSE ParseMembers(text, 2, EmptyMap)

\* Number::as_i64 for the numbers of the model, all within the range of i64
as_i64(n) == IF n.kind = "Float" THEN None ELSE Some(n.n)

\* Number::as_f64
as_f64(n) == Some(n.n)

\* KymaWidgetExtractor::validate_kyma_data
validate_kyma_data(data) ==
    IF KConcreteEventID \notin DOMAIN data
    THEN Error("Missing required field: concreteEventID")
    ELSE IF data[KConcreteEventID].t = "number"
    THEN IF ~as_i64(data[KConcreteEventID]).some
         THEN Error("concreteEventID must be a valid integer")
         ELSE Ok(Unit)
    ELSE Error("concreteEventID must be a number")

\* KymaWidgetExtractor::cache_widget_description
cache_widget_description(descriptions, kyma_data) ==
    IF KConcreteEventID \in DOMAIN kyma_data
       /\ kyma_data[KConcreteEventID].t = "number"
       /\ as_i64(kyma_data[KConcreteEventID]).some
    THEN Insert(descriptions, as_i64(kyma_data[KConcreteEventID]).val, kyma_data)
    ELSE descriptions

\* the service after its extractor cached the data that passed the validation
Cached(descriptions, kyma_data, validation) ==
    IF ~validation.ok
    THEN [ret |-> Error("Invalid Kyma data"), widget_descriptions |-> descriptions]
    ELSE [ret |-> Ok(Unit),
          widget_descriptions |-> cache_widget_description(descriptions, kyma_data)]

\* mutant: data that fails the validation is cached under the event id of the call
CachedUnderEventId(descriptions, event_id, parsed) ==
    IF ~parsed.ok
    THEN [ret |-> Error("Failed to parse JSON"), widget_descriptions |-> descriptions]
    ELSE IF ~validate_kyma_data(parsed.val).ok
    THEN [ret |-> Error("Invalid Kyma data"),
          widget_descriptions |-> Insert(descriptions, event_id, parsed.val)]
    ELSE Cached(descriptions, parsed.val, validate_kyma_data(parsed.val))

\* StandaloneIntelligenceService::cache_widget_description on the parsed text;
\* the event id of the call is only logged
CachedParsed(descriptions, event_id, parsed) ==
    IF ~parsed.ok
    THEN [ret |-> Error("Failed to parse JSON"), widget_descriptions |-> descriptions]
    ELSE Cached(descriptions, parsed.val, validate_kyma_data(parsed.val))

\* StandaloneIntelligenceService::cache_widget_description
service_cache_widget_description(descriptions, event_id, kyma_json) ==
    CachedParsed(descriptions, event_id, from_str(kyma_json))

DigitChars == <<"0", "1", "2", "3", "4", "5", "6", "7", "8", "9">>

\* i64::to_string for the ids of the model, none negative
DigitString(n) == [i \in 1..Len(to_string(n)) |-> DigitChars[to_string(n)[i] + 1]]

IsDigit(c) == \E d \in 1..10 : DigitChars[d] = c
DigitOf(c) == (CHOOSE d \in 1..10 : DigitChars[d] = c) - 1

\* the digits of a string of digit characters, Err for any other string
DigitsOf(s) ==
    IF s # <<>> /\ \A i \in 1..Len(s) : IsDigit(s[i])
    THEN parse([i \in 1..Len(s) |-> DigitOf(s[i])]) ELSE Err

StringOf(data, field_name) ==
    IF field_name \in DOMAIN data /\ data[field_name].t = "string"
    THEN Some(data[field_name].s) ELSE None

NonEmptyStringOf(data, field_name) ==
    IF StringOf(data, field_name).some /\ StringOf(data, field_name).val # <<>>
    THEN StringOf(data, field_name) ELSE None

\* format!("Widget {}", event_id) for the event ids of the model, none negative
WidgetLabel(n) ==
    <<"W", "i", "d", "g", "e", "t", " ">> \o DigitString(n.n)

\* KymaWidgetExtractor::extract_label
extract_label(data) ==
    IF NonEmptyStringOf(data, KLabel).some THEN NonEmptyStringOf(data, KLabel)
    ELSE IF NonEmptyStringOf(data, KName).some THEN NonEmptyStringOf(data, KName)
    ELSE IF NonEmptyStringOf(data, KTitle).some THEN NonEmptyStringOf(data, KTitle)
    ELSE IF KConcreteEventID \in DOMAIN data /\ data[KConcreteEventID].t = "number"
    THEN Some(WidgetLabel(data[KConcreteEventID]))
    ELSE None

\* KymaWidgetExtractor::extract_display_type
extract_display_type(data) ==
    IF StringOf(data, KDisplayType).some THEN StringOf(data, KDisplayType)
    ELSE IF StringOf(data, KWidgetType).some THEN StringOf(data, KWidgetType)
    ELSE StringOf(data, KControlType)

\* str::parse::<i64> and, for the strings of whole numbers, str::parse::<f64>:
\* an optional sign and decimal digits
parse_signed(s) ==
    IF s = <<>> THEN Err
    ELSE IF Head(s) = "-"
    THEN IF DigitsOf(Tail(s)).ok THEN Ok(0 - DigitsOf(Tail(s)).val) ELSE Err
    ELSE IF Head(s) = "+" THEN DigitsOf(Tail(s))
    ELSE DigitsOf(s)

\* KymaWidgetExtractor::extract_float_field
extract_float_field(data, field_name) ==
    IF field_name \notin DOMAIN data THEN None
    ELSE IF data[field_name].t = "number" THEN as_f64(data[field_name])
    ELSE IF data[field_name].t = "string" /\ parse_signed(data[field_name].s).ok
    THEN Some(parse_signed(data[field_name].s).val)
    ELSE None

TrueWords == {<<"t", "r", "u", "e">>, <<"1">>, <<"y", "e", "s">>, <<"o", "n">>}
FalseWords == {<<"f", "a", "l", "s", "e">>, <<"0">>, <<"n", "o">>, <<"o", "f", "f">>}

\* KymaWidgetExtractor::extract_bool_field
extract_bool_field(data, field_name) ==
    IF field_name \notin DOMAIN data THEN None
    ELSE IF data[field_name].t = "bool" THEN Some(data[field_name].b)
    ELSE IF data[field_name].t = "string"
    THEN IF ToLowercase(data[field_name].s) \in TrueWords THEN Some(TRUE)
         ELSE IF ToLowercase(data[field_name].s) \in FalseWords THEN Some(FALSE)
         ELSE None
    ELSE IF data[field_name].t = "number" /\ as_i64(data[field_name]).some
    THEN Some(as_i64(data[field_name]).val # 0)
    ELSE None

\* a display type read from a description, as the widgets of the model hold it
DisplayType(o) == IF o.some THEN Some(DisplayTypeOf(o.val)) ELSE None

\* the widget create_training_widget builds from a cached description
TrainingWidget(kyma_data, current_value) ==
    Widget(extract_label(kyma_data),
           extract_float_field(kyma_data, KMinimum),
           extract_float_field(kyma_data, KMaximum),
           extract_bool_field(kyma_data, KIsGenerated),
           DisplayType(extract_display_type(kyma_data)),
           Some(current_value))

\* KymaWidgetExtractor::create_training_widget
create_training_widget(descriptions, event_id, current_value) ==
    IF event_id \in DOMAIN descriptions
    THEN Some(TrainingWidget(descriptions[event_id], current_value))
    ELSE None

\* the keys of widget_values that parse as an i64
ParsedKeys(widget_values) == {k \in DOMAIN widget_values : parse_signed(k).ok}

\* the event_values of save_preset_and_learn: the entries whose key parses, under
\* the parsed key (no two keys of the model parse to the same id)
event_values_of(widget_values) ==
    [id \in {parse_signed(k).val : k \in ParsedKeys(widget_values)} |->
        widget_values[CHOOSE k \in ParsedKeys(widget_values) : parse_signed(k).val = id]]

\* the orders a HashMap of these keys can iterate in
Orders(keys) ==
    {order \in [1..Cardinality(keys) -> keys] :
        \A i, j \in 1..Cardinality(keys) : i # j => order[i] # order[j]}

\* the system after PersistentWidgetSuggestionEngine::store_widget took the
\* engine to the one given, and the widget value pushed for the preset
Trained(sys, after, widget_value) ==
    [engine |-> after,
     widgets |-> StoredWidgets(sys.widgets, sys.engine.records, after.records,
                               first_frequent(after.records)),
     metadata |-> StoredMetadata(sys.metadata, sys.engine.records, after.records,
                                 after.next_id),
     widget_values |-> Append(sys.widget_values, widget_value)]

\* one turn of the loop of save_preset_and_learn
LearnOne(sys, training, event_id, current_value, now_) ==
    IF ~training.some THEN sys
    ELSE Trained(sys, store_widget(sys.engine, training.val, now_),
                 WidgetValue(DigitString(event_id), training.val.label, current_value, One))

\* the loop of save_preset_and_learn over the event values in iteration order
RECURSIVE Learn(_, _, _, _, _)
Learn(sys, descriptions, event_values, order, now_) ==
    IF order = <<>> THEN sys
    ELSE Learn(LearnOne(sys,
                        create_training_widget(descriptions, Head(order),
                                               event_values[Head(order)]),
                        Head(order), event_values[Head(order)], now_),
               descriptions, event_values, Tail(order), now_)

\* the system after PersistentWidgetSuggestionEngine::store_preset of the preset
\* built from the widget values, and the IntelligenceStats returned
Saved(sys, presets_, descriptions, preset, now_) ==
    [engine |-> store_preset(sys.engine, preset, now_),
     widgets |-> sys.widgets,
     metadata |-> sys.metadata,
     presets |-> Insert(presets_, preset.name, serialize_preset(preset)),
     ret |-> Ok([total_widgets |-> Len(sys.engine.records),
                 total_presets |-> Len(store_preset(sys.engine, preset, now_).presets),
                 cache_size |-> Cardinality(DOMAIN descriptions)])]

SavedPreset(sys, presets_, descriptions, preset_data, now_) ==
    Saved(sys, presets_, descriptions,
          Preset(preset_data.name, preset_data.description, sys.widget_values,
                 preset_data.created_by, 1, now_),
          now_)

\* StandaloneIntelligenceService::save_preset_and_learn, the map of event values
\* iterating in the given order
save_preset_and_learn(e, widgets, presets_, metadata, descriptions, preset_data, order, now_) ==
    SavedPreset(Learn([engine |-> e, widgets |-> widgets, metadata |-> metadata,
                       widget_values |-> <<>>],
                      descriptions, event_values_of(preset_data.widget_values),
                      order, now_),
                presets_, descriptions, preset_data, now_)

Object(members) == <<Punct("{")>> \o members \o <<Punct("}")>>
Member(key, value) == <<JString(key), Punct(":"), value>>
Comma == <<Punct(",")>>

IdVol == 7
IdPan == 8
IdUncached == 9

\* the description of a slider: the widget WVol at value 50
JVol ==
    Object(Member(KConcreteEventID, JInt(IdVol)) \o Comma
           \o Member(KLabel, JString(LVol)) \o Comma
           \o Member(KMinimum, JInt(0)) \o Comma
           \o Member(KMaximum, JInt(100)) \o Comma
           \o Member(KIsGenerated, JBool(FALSE)) \o Comma
           \o Member(KDisplayType, JString(CSlider)))

\* another description for the same event id, named instead of labelled
JVo ==
    Object(Member(KConcreteEventID, JInt(IdVol)) \o Comma
           \o Member(KLabel, JString(<<>>)) \o Comma
           \o Member(KName, JString(LVo)) \o Comma
           \o Member(KMinimum, JFloat(0)) \o Comma
           \o Member(KMaximum, JString(<<"1", "0", "0">>)) \o Comma
           \o Member(KIsGenerated, JInt(0)) \o Comma
           \o Member(KWidgetType, JString(CSlider)))

\* the description of a knob: the widget WPan at value 0
JPan ==
    Object(Member(KConcreteEventID, JInt(IdPan)) \o Comma
           \o Member(KTitle, JString(LPan)) \o Comma
           \o Member(KMinimum, JInt(-50)) \o Comma
           \o Member(KMaximum, JInt(50)) \o Comma
           \o Member(KIsGenerated, JBool(TRUE)) \o Comma
           \o Member(KControlType, JString(CKnob)))

\* texts without an integer concreteEventID
JNoId == Object(Member(KLabel, JString(LVol)))
JStringId == Object(Member(KConcreteEventID, JString(<<"7">>)) \o Comma
                    \o Member(KLabel, JString(LVol)))
JFloatId == Object(Member(KConcreteEventID, JFloat(IdVol)) \o Comma
                   \o Member(KLabel, JString(LVol)))

\* texts that do not parse into a map
JUnclosed == <<Punct("{")>> \o Member(KConcreteEventID, JInt(IdVol))
JArray == <<Punct("["), JInt(IdVol), Punct("]")>>

\* the JSON texts handed to cache_widget_description
JsonTexts == {JVol, JVo, JPan, JNoId, JStringId, JFloatId, JUnclosed, JArray}

\* the event ids handed to cache_widget_description
EventIds == {IdUncached}

PresetData(name, description, widget_values, created_by) ==
    [name |-> name, description |-> description, widget_values |-> widget_values,
     created_by |-> created_by]

\* the preset data handed to save_preset_and_learn
PresetDatas ==
    {PresetData("My Setup", None, EmptyMap, None),
     PresetData("My Setup", None, (<<"7">> :> 50), None),
     PresetData("my setup", Some("Updated preset"),
                (<<"7">> :> 75) @@ (<<"+", "8">> :> 0), None),
     PresetData("my setup", None, (<<"x">> :> 10) @@ (<<"9">> :> 10),
                Some("test_user"))}

SetService(r) ==
    /\ ret' = r.ret
    /\ widget_descriptions' = r.widget_descriptions

CacheWidgetDescription ==
    /\ \E event_id \in EventIds, kyma_json \in JsonTexts :
          /\ SetService(service_cache_widget_description(widget_descriptions,
                                                         event_id, kyma_json))
          /\ call' = [op |-> "cache_widget_description", event_id |-> event_id,
                      kyma_json |-> kyma_json]
    /\ UNCHANGED <<threads, records, presets, display_types, next_id, now, observed,
                   store_calls, preset_calls, database, closed>>

SetSystem(r) ==
    /\ SetEngine(r.engine)
    /\ widgets_tree' = r.widgets
    /\ presets_tree' = r.presets
    /\ metadata_tree' = r.metadata
    /\ ret' = r.ret

SavePresetAndLearn ==
    /\ store_calls + preset_calls < MaxCalls
    /\ \E preset_data \in PresetDatas :
          \E order \in Orders(DOMAIN event_values_of(preset_data.widget_values)) :
             /\ SetSystem(save_preset_and_learn(engine, widgets_tree, presets_tree,
                                                metadata_tree, widget_descriptions,
                                                preset_data, order, now))
             /\ call' = [op |-> "save_preset_and_learn", preset_data |-> preset_data]
    /\ now' = now + 1
    /\ preset_calls' = preset_calls + 1
    /\ UNCHANGED <<threads, observed, store_calls, closed, widget_descriptions>>

ServiceNext ==
    \/ CacheWidgetDescription
    \/ SavePresetAndLearn

\* the standalone service on a new database
ServiceSpec == Init /\ [][ServiceNext]_vars

(***************************************************************************)
(* The standalone service shared between threads.  Each operation is a     *)
(* sequence of steps of the thread that runs it: the calls of lock() in    *)
(* the order of the code, then the work done under the locks, the loop of  *)
(* save_preset_and_learn one turn at a time; the guards are dropped when   *)
(* the operation returns.  A step of one thread can come between any two   *)
(* steps of another.                                                       *)
(***************************************************************************)

\* mutant: get_intelligence_stats locks the extractor before the system
LockOrderStatsReversed(op) ==
    CASE op = "cache_widget_description" -> <<"extractor">>
      [] op = "save_preset_and_learn" -> <<"system", "extractor">>
      [] op = "get_widget_value_suggestions" -> <<"system">>
      [] op = "get_intelligence_stats" -> <<"extractor", "system">>

\* the fields of the service an operation locks, in the order of its calls
\* of lock()
LockOrder(op) ==
    CASE op = "cache_widget_description" -> <<"extractor">>
      [] op = "save_preset_and_learn" -> <<"system", "extractor">>
      [] op = "get_widget_value_suggestions" -> <<"system">>
      [] op = "get_intelligence_stats" -> <<"system", "extractor">>

\* the thread that holds the Mutex of a field, or Free
Holder(th, lock) == IF lock = "system" THEN th.system ELSE th.extractor

\* the next lock() of a thread that has not yet made all of them
NextLock(pc) == LockOrder(pc.op)[pc.held + 1]

\* a thread before one of its calls of lock(), and a thread past all of them
Locking(th, t) == th.pc[t] # Idle /\ th.pc[t].held < Len(LockOrder(th.pc[t].op))
Working(th, t) == th.pc[t] # Idle /\ th.pc[t].held = Len(LockOrder(th.pc[t].op))

\* lock() returning the guard to thread t
Locked(th, t, lock) ==
    IF lock = "system"
    THEN [th EXCEPT !.system = t, !.pc[t].held = @ + 1]
    ELSE [th EXCEPT !.extractor = t, !.pc[t].held = @ + 1]

\* the operation of thread t returning: its guards are dropped
Returned(th, t) ==
    [th EXCEPT !.pc[t] = Idle,
               !.system = IF @ = t THEN Free ELSE @,
               !.extractor = IF @ = t THEN Free ELSE @]

\* the operations the threads start, none of its locks taken yet
Operations ==
    {[op |-> "cache_widget_description", held |-> 0, event_id |-> IdUncached,
      kyma_json |-> kyma_json] : kyma_json \in {JVol, JPan, JNoId}}
    \cup {[op |-> "save_preset_and_learn", held |-> 0, preset_data |-> preset_data,
           order |-> order, widget_values |-> <<>>] :
             preset_data \in {PresetData("My Setup", None, (<<"7">> :> 50), None),
                              PresetData("my setup", Some("Updated preset"),
                                         (<<"7">> :> 75) @@ (<<"+", "8">> :> 0), None)},
             order \in Orders({IdVol}) \cup Orders({IdVol, IdPan})}
    \cup {[op |-> "get_widget_value_suggestions", held |-> 0, event_id |-> IdVol,
           partial_widget |-> QVol]}
    \cup {[op |-> "get_intelligence_stats", held |-> 0]}

\* a step of thread t of the operation op
Step(t, op, step) == [op |-> op, thread |-> t, step |-> step]

\* a thread starts an operation
CallOperation ==
    /\ threads.started < MaxOperations
    /\ \E t \in Threads, operation \in Operations :
          /\ threads.pc[t] = Idle
          /\ operation.op = "save_preset_and_learn" =>
                operation.order \in
                    Orders(DOMAIN event_values_of(operation.preset_data.widget_values))
          /\ threads' = [threads EXCEPT !.pc[t] = operation, !.started = @ + 1]
          /\ call' = Step(t, operation.op, "call")
    /\ UNCHANGED <<records, presets, display_types, next_id, now, ret, observed,
                   store_calls, preset_calls, database, closed, widget_descriptions>>

\* what cache_widget_description does before its lock(): the parse and the
\* validation of the text
Accepted(kyma_json) == service_cache_widget_description(EmptyMap, IdUncached, kyma_json).ret.ok

\* cache_widget_description returns the error of the parse or of the validation
RejectDescription ==
    /\ \E t \in Threads :
          /\ Locking(threads, t)
          /\ threads.pc[t].op = "cache_widget_description"
          /\ ~Accepted(threads.pc[t].kyma_json)
          /\ ret' = service_cache_widget_description(widget_descriptions,
                                                     threads.pc[t].event_id,
                                                     threads.pc[t].kyma_json).ret
          /\ threads' = Returned(threads, t)
          /\ call' = Step(t, threads.pc[t].op, "return")
    /\ UNCHANGED <<records, presets, display_types, next_id, now, observed,
                   store_calls, preset_calls, database, closed, widget_descriptions>>

\* a lock() of a thread returns: the Mutex was free
Lock ==
    /\ \E t \in Threads :
          /\ Locking(threads, t)
          /\ threads.pc[t].op = "cache_widget_description" =>
                Accepted(threads.pc[t].kyma_json)
          /\ Holder(threads, NextLock(threads.pc[t])) = Free
          /\ threads' = Locked(threads, t, NextLock(threads.pc[t]))
          /\ call' = Step(t, threads.pc[t].op, "lock")
    /\ UNCHANGED <<records, presets, display_types, next_id, now, ret, observed,
                   store_calls, preset_calls, database, closed, widget_descriptions>>

\* cache_widget_description under the lock of the extractor
CacheLocked ==
    /\ \E t \in Threads :
          /\ Working(threads, t)
          /\ threads.pc[t].op = "cache_widget_description"
          /\ SetService(service_cache_widget_description(widget_descriptions,
                                                         threads.pc[t].event_id,
                                                         threads.pc[t].kyma_json))
          /\ threads' = Returned(threads, t)
          /\ call' = Step(t, threads.pc[t].op, "return")
    /\ UNCHANGED <<records, presets, display_types, next_id, now, observed,
                   store_calls, preset_calls, database, closed>>

\* the system and the thread after one turn of the loop
SetLearned(t, sys) ==
    /\ SetEngine(sys.engine)
    /\ widgets_tree' = sys.widgets
    /\ metadata_tree' = sys.metadata
    /\ threads' = [threads EXCEPT !.pc[t].order = Tail(@),
                                  !.pc[t].widget_values = sys.widget_values]

\* one turn of the loop of save_preset_and_learn, under both locks
LearnNext ==
    /\ \E t \in Threads :
          /\ Working(threads, t)
          /\ threads.pc[t].op = "save_preset_and_learn"
          /\ threads.pc[t].order # <<>>
          /\ SetLearned(t, LearnOne([engine |-> engine, widgets |-> widgets_tree,
                                     metadata |-> metadata_tree,
                                     widget_values |-> threads.pc[t].widget_values],
                                    create_training_widget(
                                        widget_descriptions, Head(threads.pc[t].order),
                                        event_values_of(threads.pc[t].preset_data.widget_values)
                                            [Head(threads.pc[t].order)]),
                                    Head(threads.pc[t].order),
                                    event_values_of(threads.pc[t].preset_data.widget_values)
                                        [Head(threads.pc[t].order)],
                                    now))
          /\ call' = Step(t, threads.pc[t].op, "store_widget")
    /\ UNCHANGED <<now, ret, observed, store_calls, preset_calls, presets_tree,
                   closed, widget_descriptions>>

\* save_preset_and_learn after its loop: store_preset, the stats, the return
StorePresetLocked ==
    /\ \E t \in Threads :
          /\ Working(threads, t)
          /\ threads.pc[t].op = "save_preset_and_learn"
          /\ threads.pc[t].order = <<>>
          /\ SetSystem(SavedPreset([engine |-> engine, widgets |-> widgets_tree,
                                    metadata |-> metadata_tree,
                                    widget_values |-> threads.pc[t].widget_values],
                                   presets_tree, widget_descriptions,
                                   threads.pc[t].preset_data, now))
          /\ threads' = Returned(threads, t)
          /\ call' = Step(t, threads.pc[t].op, "return")
    /\ now' = now + 1
    /\ UNCHANGED <<observed, store_calls, preset_calls, closed, widget_descriptions>>

\* the SuggestionResponse made of a Suggestion
SuggestionResponse(suggestion) ==
    [suggested_value |-> suggestion.suggested_value,
     confidence |-> suggestion.confidence,
     alternative_values |-> suggestion.alternative_values,
     reason |-> suggestion.reason]

SuggestionResponses(suggestions) ==
    [i \in DOMAIN suggestions |-> SuggestionResponse(suggestions[i])]

\* get_widget_value_suggestions under the lock of the system
SuggestLocked ==
    /\ \E t \in Threads :
          /\ Working(threads, t)
          /\ threads.pc[t].op = "get_widget_value_suggestions"
          /\ ret' = Ok(SuggestionResponses(
                          get_suggestions(engine, threads.pc[t].partial_widget, 5).ret.value))
          /\ threads' = Returned(threads, t)
          /\ call' = Step(t, threads.pc[t].op, "return")
    /\ UNCHANGED <<records, presets, display_types, next_id, now, observed,
                   store_calls, preset_calls, database, closed, widget_descriptions>>

\* the IntelligenceStats of the service
IntelligenceStats(e, descriptions) ==
    [total_widgets |-> get_stats(e).ret.value.total_widgets,
     total_presets |-> get_stats(e).ret.value.presets_stored,
     cache_size |-> Cardinality(DOMAIN descriptions)]

\* get_intelligence_stats under both locks
StatsLocked ==
    /\ \E t \in Threads :
          /\ Working(threads, t)
          /\ threads.pc[t].op = "get_intelligence_stats"
          /\ ret' = Ok(IntelligenceStats(engine, widget_descriptions))
          /\ threads' = Returned(threads, t)
          /\ call' = Step(t, threads.pc[t].op, "return")
    /\ UNCHANGED <<records, presets, display_types, next_id, now, observed,
                   store_calls, preset_calls, database, closed, widget_descriptions>>

SharedNext ==
    \/ CallOperation
    \/ RejectDescription
    \/ Lock
    \/ CacheLocked
    \/ LearnNext
    \/ StorePresetLocked
    \/ SuggestLocked
    \/ StatsLocked

\* the standalone service on a new database, shared between threads
SharedSpec == Init /\ [][SharedNext]_vars

(***************************************************************************)
(* Properties.  In an action formula, the unprimed variables are the       *)
(* engine before the call that call' names and the primed ones the engine  *)
(* after it.                                                               *)
(***************************************************************************)
IsQuery(op) == op \in {"get_suggestions", "get_preset_insights", "get_stats"}

\* the stored records a store_widget call of this widget finds similar enough
SimilarTo(e, widget) ==
    LET features == extract_features(e, widget).features
    IN {i \in 1..Len(e.records) :
           calculate_similarity(features, e.records[i].features) > MergeThreshold}

RECURSIVE SumFrequencies(_)
SumFrequencies(records_) ==
    IF records_ = <<>> THEN 0
    ELSE Head(records_).frequency + SumFrequencies(Tail(records_))

\* C1: store_widget merges or creates.  When a stored record is more than 0.95
\* similar to the incoming widget, the number of records stays and exactly one
\* record's frequency grows, by 1; otherwise one record of frequency 1 is
\* appended.  After two calls on a new engine there is one record of frequency 2
\* or there are two records of frequency 1, as the second widget resembles the
\* first or not.
C1_MergeOrCreateStep ==
    call'.op = "store_widget" =>
        IF SimilarTo(engine, call'.widget) # {}
        THEN /\ Len(records') = Len(records)
             /\ Cardinality({i \in 1..Len(records) :
                    records'[i].frequency = records[i].frequency + 1}) = 1
             /\ Cardinality({i \in 1..Len(records) :
                    records'[i].frequency = records[i].frequency}) = Len(records) - 1
        ELSE /\ Len(records') = Len(records) + 1
             /\ SubSeq(records', 1, Len(records)) = records
             /\ records'[Len(records')].frequency = 1
C1_TwoWidgets ==
    (call.op = "store_widget" /\ store_calls = 2 /\ preset_calls = 0) =>
        LET second == extract_features_partial(engine, call.widget).features
        IN IF calculate_similarity(second, records[1].features) > MergeThreshold
           THEN Len(records) = 1 /\ records[1].frequency = 2
           ELSE /\ Len(records) = 2
                /\ records[1].frequency = 1
                /\ records[2].frequency = 1
C1_MergeOrCreate == [][C1_MergeOrCreateStep]_vars /\ []C1_TwoWidgets

\* C1 witness: a third store_widget call was merged into one of two records
C1_Witness ==
    /\ call.op = "store_widget"
    /\ Len(records) = 2
    /\ \E i \in 1..2 : records[i].frequency = 2

\* C2: the suggestions get_suggestions returns are in order of non-increasing
\* confidence
C2_SortedByConfidence ==
    call.op = "get_suggestions" =>
        \A k \in 1..(Len(ret.value) - 1) :
            ret.value[k].confidence >= ret.value[k + 1].confidence

\* C3: get_suggestions returns at most max_suggestions suggestions, and at most
\* one for each stored record
C3_AtMostMax ==
    call.op = "get_suggestions" =>
        /\ Len(ret.value) <= call.max_suggestions
        /\ Len(ret.from) = Len(ret.value)
        /\ \A k \in 1..Len(ret.from) : \E i \in 1..Len(records) : records[i].id = ret.from[k]
        /\ \A k, l \in 1..Len(ret.from) : k # l => ret.from[k] # ret.from[l]

\* C3 witness: two suggestions were asked for and returned, of three records
C3_Witness ==
    /\ call.op = "get_suggestions"
    /\ call.max_suggestions = 2
    /\ Len(records) = 3
    /\ Len(ret.value) = 2

\* the stored records whose similarity to the query widget is above 0.1
Qualifying(e, partial_widget) ==
    LET features == extract_features_partial(e, partial_widget).features
    IN {i \in 1..Len(e.records) :
           calculate_similarity(features, e.records[i].features) > SuggestionThreshold}

\* C4: get_suggestions returns a suggestion only for records more than 0.1
\* similar to the query; when k records are, it returns min(max_suggestions, k)
\* suggestions; every confidence returned is above 0.1
C4_ThresholdExact ==
    call.op = "get_suggestions" =>
        LET qualifying == Qualifying(engine, call.widget)
        IN /\ \A k \in 1..Len(ret.from) :
                  \E i \in qualifying : records[i].id = ret.from[k]
           /\ Len(ret.value) = Min2(call.max_suggestions, Cardinality(qualifying))
           /\ \A k \in 1..Len(ret.value) :
                  ret.value[k].confidence > SuggestionThreshold

\* C4 witness: of three records two qualify, and one suggestion was asked for
C4_Witness ==
    /\ call.op = "get_suggestions"
    /\ call.max_suggestions = 1
    /\ Len(records) = 3
    /\ Cardinality(Qualifying(engine, call.widget)) = 2
    /\ Len(ret.value) = 1

\* C5: a record's frequency is the number of store_widget calls that created it
\* or were merged into it; the frequencies add up to the number of store_widget
\* calls; no call lowers a frequency
C5_FrequencyCounts ==
    /\ \A i \in 1..Len(records) :
          /\ records[i].id \in DOMAIN observed
          /\ records[i].frequency = observed[records[i].id]
    /\ SumFrequencies(records) = store_calls
C5_NeverDecremented ==
    \A i \in 1..Len(records) :
        /\ i <= Len(records')
        /\ records'[i].frequency >= records[i].frequency
C5_Frequency == []C5_FrequencyCounts /\ [][C5_NeverDecremented]_vars

\* C5 witness: three store_widget calls, one record of frequency 2 among two
C5_Witness ==
    /\ store_calls = 3
    /\ Len(records) = 2
    /\ \E i \in 1..2 : records[i].frequency = 2

\* C6: record ids are distinct, grow with the position in the list and are less
\* than next_id; next_id grows by 1 when a record is created and stays when a
\* widget is merged
C6_IdsIncreasing ==
    /\ \A i, k \in 1..Len(records) : i < k => records[i].id < records[k].id
    /\ \A i \in 1..Len(records) : records[i].id < next_id
C6_NextIdStep ==
    call'.op = "store_widget" =>
        IF Len(records') > Len(records)
        THEN next_id' = next_id + 1
        ELSE Len(records') = Len(records) /\ next_id' = next_id
C6_Ids == []C6_IdsIncreasing /\ [][C6_NextIdStep]_vars

\* C6 witness: three store_widget calls, two of which created a record
C6_Witness ==
    /\ Len(records) = 2
    /\ next_id = 3
    /\ store_calls = 3

\* C7: no two stored presets have the same name; storing under a name that
\* exists keeps the number of presets and adds 1 to that preset's usage_count;
\* storing under a new name appends one preset
C7_NamesDistinct ==
    \A i, k \in 1..Len(presets) : i # k => presets[i].name # presets[k].name
C7_StorePresetStep ==
    call'.op = "store_preset" =>
        LET name == call'.preset.name
            same == {i \in 1..Len(presets) : presets[i].name = name}
        IN IF same # {}
           THEN /\ Len(presets') = Len(presets)
                /\ \A i \in same : presets'[i].usage_count = presets[i].usage_count + 1
                /\ \A i \in 1..Len(presets) \ same :
                      presets'[i].usage_count = presets[i].usage_count
           ELSE /\ Len(presets') = Len(presets) + 1
                /\ SubSeq(presets', 1, Len(presets)) = presets
                /\ presets'[Len(presets')].name = name
C7_PresetNames == []C7_NamesDistinct /\ [][C7_StorePresetStep]_vars

\* C7 witness: "My Setup" stored twice and "my setup" once
C7_Witness ==
    /\ preset_calls = 3
    /\ Len(presets) = 2
    /\ \E i \in 1..2 : presets[i].usage_count = 2

\* C8: store_preset under a name that exists replaces the stored preset's
\* description and widget values by the incoming ones
C8_PresetReplaced ==
    [][(call'.op = "store_preset" /\ find_preset(presets, call'.preset.name) # 0) =>
            LET stored == presets'[find_preset(presets', call'.preset.name)]
            IN /\ stored.description = call'.preset.description
               /\ stored.widget_values = call'.preset.widget_values]_vars

\* C9: get_suggestions, get_preset_insights and get_stats leave the records, the
\* presets, next_id and the display-type map as they were
C9_QueriesReadOnly ==
    [][IsQuery(call'.op) => UNCHANGED <<threads, records, presets, next_id, display_types>>]_vars

\* C9 witness: get_suggestions was asked about a display type no stored widget
\* had
C9_Witness ==
    /\ call.op = "get_suggestions"
    /\ call.widget.display_type = Some("fader")
    /\ "fader" \notin DOMAIN display_types
    /\ Len(records) > 0
    /\ Len(ret.value) > 0

\* C10: when store_widget merges a widget whose current value is known, the
\* record it was merged into holds that current value afterwards
C10_CurrentValueOverwritten ==
    [][(/\ call'.op = "store_widget"
        /\ SimilarTo(engine, call'.widget) # {}
        /\ call'.widget.current_value.some) =>
            \A i \in 1..Len(records) :
                records'[i].frequency # records[i].frequency =>
                    records'[i].widget.current_value = call'.widget.current_value]_vars

\* C11: calculate_similarity returns a value in [0,1] for every pair of feature
\* vectors, those of zero or negative range and of empty token lists included
C11_SimilarityInUnitInterval ==
    (call.op = "calculate_similarity" /\ ret # Pending) =>
        (ret.value >= 0 /\ ret.value <= One)

\* C11 witness: an unlabelled vector of inverted range was compared with a
\* labelled vector of empty range
C11_Witness ==
    /\ call.op = "calculate_similarity"
    /\ ret # Pending
    /\ call.features1.range < 0
    /\ call.features1.label_tokens = <<>>
    /\ call.features2.range = 0
    /\ call.features2.label_tokens # <<>>
    /\ ret.value > 0
    /\ ret.value < One

\* C12: similarity is reflexive: calculate_similarity(F, F) = 1.0 for every
\* feature vector F extracted from a widget
C12_Reflexive ==
    (call.op = "calculate_similarity" /\ ret # Pending
        /\ call.features1 = call.features2) =>
            ret.value = One

\* C12 witness: a vector without label and display type, of inverted range, was
\* compared with itself
C12_Witness ==
    /\ call.op = "calculate_similarity"
    /\ ret # Pending
    /\ call.features1 = call.features2
    /\ call.features1.range < 0
    /\ call.features1.label_tokens = <<>>
    /\ call.features1.display_type_hash = 0
    /\ ret.value = One

\* C13: the display-type sub-score of calculate_similarity is 1.0 only if both
\* identifiers are equal and nonzero, and 0.0 otherwise
C13_DisplayScoreNonzero ==
    (call.op = "calculate_similarity" /\ ret # Pending) =>
        display_similarity(call.features1, call.features2)
            = IF call.features1.display_type_hash = call.features2.display_type_hash
                 /\ call.features1.display_type_hash # 0
              THEN One ELSE 0

\* C14: the confidence of a suggestion lies in (0,1] for every frequency >= 1 and
\* every similarity in (0.1, 1], however large the frequency
C14_ConfidenceInUnitInterval ==
    (call.op = "confidence" /\ ret # Pending) => (ret.value > 0 /\ ret.value <= One)

\* C14 witness: full similarity at a frequency beyond the cap of the frequency
\* term
C14_Witness ==
    /\ call.op = "confidence"
    /\ ret # Pending
    /\ call.similarity = One
    /\ call.frequency > 3
    /\ ret.value = One

\* C20: the normalized position extract_features returns lies in [0,1]; it is
\* (current - minimum) / range clamped to [0,1] when the current value is known
\* and the range is positive, and 0.5 when the current value is unknown or the
\* range is zero or negative
C20_NormalizedPosition ==
    (call.op = "extract_features" /\ ret # Pending) =>
        LET widget == call.widget
            position == ret.value.normalized_position
            minimum == UnwrapOr(widget.minimum, 0)
            range == UnwrapOr(widget.maximum, 1) - minimum
        IN /\ position >= 0
           /\ position <= One
           /\ IF widget.current_value.some /\ range > 0
              THEN position = Clamp(((widget.current_value.val - minimum) * One)
                                       \div range, 0, One)
              ELSE position = One \div 2

\* C20 witness: a widget of inverted range with a known current value was
\* extracted
C20_Witness ==
    /\ call.op = "extract_features"
    /\ ret # Pending
    /\ call.widget.current_value.some
    /\ call.widget.minimum = Some(100)
    /\ call.widget.maximum = Some(0)
    /\ ret.value.normalized_position = One \div 2

\* C15: after store_widget and store_preset calls, flush, drop and reopening the
\* same database, get_stats reports the total_widgets and presets_stored the
\* engine reported before it was closed
C15_StatsSurviveReopen ==
    call.op = "reopen" =>
        /\ get_stats(engine).ret.value.total_widgets
               = get_stats(closed).ret.value.total_widgets
        /\ get_stats(engine).ret.value.presets_stored
               = get_stats(closed).ret.value.presets_stored

\* C15 witness: an engine of two records and one preset was reopened
C15_Witness ==
    /\ call.op = "reopen"
    /\ Len(closed.records) = 2
    /\ Len(closed.presets) = 1
    /\ Len(records) = 2
    /\ Len(presets) = 1

\* C16: for every query widget, get_suggestions on the reopened engine returns as
\* many suggestions as the engine returned for that query before it was closed
C16_SuggestionCountSurvivesReopen ==
    call.op = "reopen" =>
        \A partial_widget \in ReopenQueries, max_suggestions \in SuggestionCounts :
            SuggestionCount(engine, partial_widget, max_suggestions)
                = SuggestionCount(closed, partial_widget, max_suggestions)

\* C17: import_data of the data export_data produced makes the records, presets,
\* display types and next_id of the importing engine those of the exporting one,
\* and so its total_widgets and presets_stored
C17_ImportEqualsExport ==
    call.op = "import_data" =>
        /\ engine = closed
        /\ get_stats(engine).ret.value.total_widgets
               = get_stats(closed).ret.value.total_widgets
        /\ get_stats(engine).ret.value.presets_stored
               = get_stats(closed).ret.value.presets_stored

\* C17 witness: an engine with records, a preset and two display types was
\* exported and imported
C17_Witness ==
    /\ call.op = "import_data"
    /\ Len(records) = 2
    /\ Len(presets) = 1
    /\ Cardinality(DOMAIN display_types) = 2
    /\ next_id = 3

\* C18: at PersistentWidgetSuggestionEngine::new a persisted entry that fails to
\* decode is skipped and every entry that decodes is loaded
C18_ValidEntriesLoaded ==
    call.op = "reopen" =>
        /\ \A k \in DOMAIN widgets_tree :
              deserialize_record(widgets_tree[k]).ok =>
                  \E i \in 1..Len(records) :
                      records[i] = deserialize_record(widgets_tree[k]).val
        /\ \A k \in DOMAIN presets_tree :
              deserialize_preset(presets_tree[k]).ok =>
                  \E i \in 1..Len(presets) :
                      presets[i] = deserialize_preset(presets_tree[k]).val

\* C19: cache_widget_description with a text that does not parse, or whose
\* concreteEventID is missing or is not an integer number, returns an error and
\* leaves the description cache, the engine and the database as they were
C19_RejectedDescriptionChangesNothing ==
    [][(/\ call'.op = "cache_widget_description"
        /\ LET parsed == from_str(call'.kyma_json)
           IN \/ ~parsed.ok
              \/ KConcreteEventID \notin DOMAIN parsed.val
              \/ parsed.val[KConcreteEventID].t # "number"
              \/ parsed.val[KConcreteEventID].kind \notin {"PosInt", "NegInt"})
       => /\ ~ret'.ok
          /\ widget_descriptions' = widget_descriptions
          /\ engine' = engine
          /\ database' = database]_vars

\* C19 witness: a description with a Float concreteEventID was refused by a
\* service that holds cached descriptions, records and a preset
C19_Witness ==
    /\ call.op = "cache_widget_description"
    /\ call.kyma_json = JFloatId
    /\ ~ret.ok
    /\ DOMAIN widget_descriptions = {IdVol, IdPan}
    /\ Len(records) = 2
    /\ Len(presets) = 1

\* C21: calculate_label_similarity is 1.0 for two empty token lists and 0.0 when
\* exactly one of the two is empty, whichever it is
C21_EmptyTokenLists ==
    (call.op = "calculate_label_similarity" /\ ret # Pending) =>
        /\ (call.tokens1 = <<>> /\ call.tokens2 = <<>>) => ret.value = One
        /\ (call.tokens1 = <<>> /\ call.tokens2 # <<>>) => ret.value = 0
        /\ (call.tokens1 # <<>> /\ call.tokens2 = <<>>) => ret.value = 0

\* C21 witness: the score of an empty list against the tokens of a label
C21_Witness ==
    /\ call.op = "calculate_label_similarity"
    /\ ret # Pending
    /\ call.tokens1 = <<>>
    /\ call.tokens2 = Tokens[LVola]
    /\ ret.value = 0

\* C22: every common value of compute_value_stats has a frequency-table key
\* that more than one observation has, and the common values ascend
C22_CommonValuesRecur ==
    (call.op = "compute_value_stats" /\ ret # Pending) =>
        /\ \A i \in 1..Len(ret.value.common_values) :
              ret.value.frequency_map[Bucket(ret.value.common_values[i])] > 1
        /\ \A i \in 1..(Len(ret.value.common_values) - 1) :
              ret.value.common_values[i] <= ret.value.common_values[i + 1]

\* C23 as stated: for minimum < maximum, denormalize_value gives back exactly the
\* value that was normalized; without a minimum below the maximum both give None
C23_RoundTripExact ==
    (call.op = "normalize_value" /\ DOMAIN ret = {"normalized", "denormalized"}) =>
        IF call.metadata.minimum.some /\ call.metadata.maximum.some
           /\ call.metadata.minimum.val < call.metadata.maximum.val
        THEN /\ ret.normalized.some
             /\ ret.denormalized = Some(call.value)
        ELSE ret.normalized = None /\ ret.denormalized = None

\* C23 amended: for minimum < maximum, denormalize_value gives back the value
\* that was normalized to within the rounding of the two operations (one unit
\* of the arithmetic on the range and one on the result), also for values
\* outside the bounds; without a minimum below the maximum both give None
C23_RoundTripWithinTolerance ==
    (call.op = "normalize_value" /\ DOMAIN ret = {"normalized", "denormalized"}) =>
        IF call.metadata.minimum.some /\ call.metadata.maximum.some
           /\ call.metadata.minimum.val < call.metadata.maximum.val
        THEN /\ ret.normalized.some
             /\ ret.denormalized.some
             /\ Abs(ret.denormalized.val - call.value)
                    <= (call.metadata.maximum.val - call.metadata.minimum.val) \div One + 1
        ELSE ret.normalized = None /\ ret.denormalized = None

\* C23 witness: a value above the maximum went through both operations
C23_Witness ==
    /\ call.op = "normalize_value"
    /\ DOMAIN ret = {"normalized", "denormalized"}
    /\ call.metadata = WidgetMetadata(Some(0), Some((7 * One) \div 10))
    /\ call.value = (5 * One) \div 2
    /\ ret.normalized.val > One

\* C24: store_widget removes, reorders and alters nothing but the merged record.
\* A merge changes the frequency and last_seen of the first record, in insertion
\* order, that is more than 0.95 similar, and nothing else of the records, the
\* presets and next_id; a creation appends one record after the others.
C24_StoreWidgetFrameStep ==
    call'.op = "store_widget" =>
        IF SimilarTo(engine, call'.widget) # {}
        THEN LET first == CHOOSE i \in SimilarTo(engine, call'.widget) :
                              \A j \in SimilarTo(engine, call'.widget) : i <= j
             IN /\ Len(records') = Len(records)
                /\ \A i \in 1..Len(records) : i # first => records'[i] = records[i]
                /\ records'[first].frequency = records[first].frequency + 1
                /\ [records'[first] EXCEPT !.frequency = records[first].frequency,
                                           !.last_seen = records[first].last_seen]
                       = records[first]
                /\ presets' = presets
                /\ next_id' = next_id
        ELSE /\ Len(records') = Len(records) + 1
             /\ SubSeq(records', 1, Len(records)) = records
             /\ presets' = presets
C24_StoreWidgetFrame == [][C24_StoreWidgetFrameStep]_vars

\* C24 witness: a widget was merged into the first of two records although it
\* is more similar to the second
C24_Witness ==
    /\ call.op = "store_widget"
    /\ Len(records) = 2
    /\ records[1].frequency = 2
    /\ records[2].frequency = 1
    /\ calculate_similarity(extract_features_partial(engine, call.widget).features,
                            records[1].features) > MergeThreshold
    /\ calculate_similarity(extract_features_partial(engine, call.widget).features,
                            records[2].features)
          > calculate_similarity(extract_features_partial(engine, call.widget).features,
                                 records[1].features)

\* C25: after every store_widget of the persistent engine the persisted copy of
\* each record has the frequency of the record in memory, and after a reopen
\* every record has the frequency it had before the engine was closed
C25_PersistedFrequencies ==
    /\ call.op = "store_widget" =>
          \A i \in 1..Len(records) :
              /\ records[i].id \in DOMAIN widgets_tree
              /\ deserialize_record(widgets_tree[records[i].id]).val.frequency
                     = records[i].frequency
    /\ call.op = "reopen" =>
          /\ Len(records) = Len(closed.records)
          /\ \A i \in 1..Len(records) :
                 records[i].frequency = closed.records[i].frequency

\* C26: after every store_preset of the persistent engine, also under a name
\* that exists already, the preset persisted under each name has the
\* usage_count, description and widget_values of the preset in memory, and after
\* a reopen every preset has the usage_count it had before
C26_PersistedPresets ==
    /\ call.op = "store_preset" =>
          \A i \in 1..Len(presets) :
              /\ presets[i].name \in DOMAIN presets_tree
              /\ LET persisted == deserialize_preset(presets_tree[presets[i].name]).val
                 IN /\ persisted.usage_count = presets[i].usage_count
                    /\ persisted.description = presets[i].description
                    /\ persisted.widget_values = presets[i].widget_values
    /\ call.op = "reopen" =>
          \A i \in 1..Len(closed.presets) :
              \E j \in 1..Len(presets) :
                  /\ presets[j].name = closed.presets[i].name
                  /\ presets[j].usage_count = closed.presets[i].usage_count

\* C27: in the persistent engine, also after a reopen, storing a widget equal in
\* all fields to the widget of a stored record adds no record
C27_RestoreAddsNoRecordStep ==
    (/\ call'.op = "store_widget"
     /\ \E i \in 1..Len(records) : records[i].widget = call'.widget)
        => Len(records') = Len(records)
C27_RestoreAddsNoRecord == [][C27_RestoreAddsNoRecordStep]_vars

\* C28: in the persistent engine next_id is above the id of every record, also
\* after reopening, and a record that is created gets an id that is the key of
\* no persisted record
C28_NextIdAboveIds ==
    \A i \in 1..Len(records) : records[i].id < next_id
C28_CreatedKeyIsNewStep ==
    (call'.op = "store_widget" /\ Len(records') > Len(records))
        => /\ records'[Len(records')].id \notin DOMAIN widgets_tree
           /\ \A i \in 1..Len(records) : records[i].id # records'[Len(records')].id
C28_NextIdNeverReused == []C28_NextIdAboveIds /\ [][C28_CreatedKeyIsNewStep]_vars

\* C28 witness: an engine reopened with two records created a third
C28_Witness ==
    /\ call.op = "store_widget"
    /\ Len(closed.records) = 2
    /\ closed.next_id = 3
    /\ Len(records) = 3
    /\ records[3].id = 3
    /\ DOMAIN widgets_tree = {1, 2, 3}

\* C29: the identifiers store_widget assigns to display types are distinct for
\* distinct strings and never 0, the identifier of an absent display type, so
\* that no record with a display type has the identifier of a widget without
C29_DisplayTypeIds ==
    /\ \A s \in DOMAIN display_types, t \in DOMAIN display_types :
          s # t => display_types[s] # display_types[t]
    /\ \A s \in DOMAIN display_types : display_types[s] # 0
    /\ \A i \in 1..Len(records) :
          records[i].widget.display_type.some =>
              records[i].features.display_type_hash
                  # extract_features_partial(engine, WEmpty).features.display_type_hash

\* a thread whose next step can be taken: it is past its locks, or returns an
\* error before its lock, or the Mutex it asks for is free
CanStep(th, t) ==
    \/ Working(th, t)
    \/ /\ Locking(th, t)
       /\ \/ th.pc[t].op = "cache_widget_description" /\ ~Accepted(th.pc[t].kyma_json)
          \/ Holder(th, NextLock(th.pc[t])) = Free

\* a thread in save_preset_and_learn that stored a widget of its preset and has
\* not stored the preset yet
MidSave(th, t) ==
    /\ th.pc[t] # Idle
    /\ th.pc[t].op = "save_preset_and_learn"
    /\ th.pc[t].widget_values # <<>>

\* while some operation has not returned, some thread can take a step
C30_NoDeadlock ==
    (\E t \in Threads : threads.pc[t] # Idle) => \E t \in Threads : CanStep(threads, t)

\* no thread asks for the lock of the system while it holds the lock of the
\* extractor, and a thread in the middle of a save holds the lock of the system
C30_SystemBeforeExtractor ==
    \A t \in Threads :
       /\ ~(Locking(threads, t) /\ NextLock(threads.pc[t]) = "system"
            /\ threads.extractor = t)
       /\ MidSave(threads, t) => threads.system = t

\* a step that reads or writes the system is not taken while another thread is
\* in the middle of a save
C30_SaveNotObservedStep ==
    (call'.op \in {"save_preset_and_learn", "get_widget_value_suggestions",
                   "get_intelligence_stats"}
     /\ call'.step \in {"store_widget", "return"})
    => /\ threads.system = call'.thread
       /\ \A u \in Threads \ {call'.thread} : ~MidSave(threads, u)

\* C30: operations invoked on one service from several threads never deadlock:
\* every operation that takes both locks takes the lock of the system before
\* the lock of the extractor, and save_preset_and_learn holds the lock of the
\* system from its first store_widget to its store_preset, so no other
\* operation sees the system with widgets of a preset stored and the preset not
C30_ConcurrentOperations ==
    /\ [](C30_NoDeadlock /\ C30_SystemBeforeExtractor)
    /\ [][C30_SaveNotObservedStep]_vars

\* a thread has stored a widget of its preset and not the preset, while another
\* thread waits in get_widget_value_suggestions for the lock of the system
C30_Witness ==
    \E t, u \in Threads :
       /\ MidSave(threads, t)
       /\ Locking(threads, u)
       /\ threads.pc[u].op = "get_widget_value_suggestions"
       /\ Len(records) > 0
       /\ Len(presets) = 0

====
